---------------------------- MODULE Spec2Model ----------------------------
(***************************************************************************)
(* M-ILEA detection-and-scoring engine: the run_analysis pipeline          *)
(* (cli/main.py) with the pattern engine, the audit matchers, the scorer,  *)
(* the localization engine, the evidence slicer, the report builder and    *)
(* the finding grouper.                                                    *)
(*                                                                         *)
(* Strings are TLA+ strings (TLC evaluates Len, SubSeq and \o on them).    *)
(* Confidence values are integers in hundredths: 0.75 is 75.               *)
(***************************************************************************)
EXTENDS Integers, Sequences, FiniteSets, TLC

VARIABLES
    pc,                  \* position of run_analysis: the step about to run
    catalog_state,       \* data/sink_catalog.json: "ok", "unreadable", "malformed"
    ind_ok,              \* data/indicators.json: the indicator groups that are dictionaries
    decompiled_classes,  \* argument of run_analysis, read by step 2a
    extracted_apk_dir,   \* argument of run_analysis, read by step 2b
    source_code_map,     \* argument of run_analysis, read by step 5
    java_hits,           \* main.py:48
    native_hits,         \* main.py:60
    packing_hits,        \* main.py:53
    detected_fws,        \* main.py:56
    candidates,          \* main.py:75
    localized,           \* main.py:85
    evidence_slices,     \* main.py:95
    findings,            \* main.py:31, 109
    grouped,             \* main.py:32, 113
    ran,                 \* per step of run_analysis: "-", "ok" or "failed"
    mhit,                \* a hit handed to the matchers one by one
    mres,                \* what each matcher answered for mhit
    ein,                 \* a hit list handed to ProtectionPatternEngine.analyze
    eout,                \* the candidates it returned
    gin,                 \* a finding list handed to FindingGrouper.group
    gout,                \* the dictionary it returned
    calls,               \* the locals of two analyze invocations on one engine
    fin,                 \* the arguments handed to a function checked on its own
    fout                 \* what it returned

vars == <<pc, catalog_state, ind_ok, decompiled_classes, extracted_apk_dir,
          source_code_map, java_hits, native_hits, packing_hits, detected_fws,
          candidates, localized, evidence_slices, findings, grouped, ran,
          mhit, mres, ein, eout, gin, gout, calls, fin, fout>>

---------------------------------------------------------------------------
(* Python string operations *)

UpperChars == "ABCDEFGHIJKLMNOPQRSTUVWXYZ"
LowerChars == "abcdefghijklmnopqrstuvwxyz"

\* one character of str.lower()
LowerChar(c) ==
    IF \E i \in 1..Len(UpperChars) : SubSeq(UpperChars, i, i) = c
    THEN LET i == CHOOSE k \in 1..Len(UpperChars) : SubSeq(UpperChars, k, k) = c
         IN  SubSeq(LowerChars, i, i)
    ELSE c

RECURSIVE Lower(_)
\* str.lower()
Lower(s) ==
    IF Len(s) = 0 THEN ""
    ELSE LowerChar(SubSeq(s, 1, 1)) \o Lower(SubSeq(s, 2, Len(s)))

\* "sub in s"
Contains(sub, s) ==
    \E i \in 0..(Len(s) - Len(sub)) : SubSeq(s, i + 1, i + Len(sub)) = sub

\* first index (1-based) at which sub occurs in s, 0 when it does not: str.find
Find(sub, s) ==
    IF Contains(sub, s)
    THEN 1 + CHOOSE i \in 0..(Len(s) - Len(sub)) :
                 /\ SubSeq(s, i + 1, i + Len(sub)) = sub
                 /\ \A j \in 0..(i - 1) : SubSeq(s, j + 1, j + Len(sub)) # sub
    ELSE 0

StartsWith(s, p) == Len(p) <= Len(s) /\ SubSeq(s, 1, Len(p)) = p
EndsWith(s, p) == Len(p) <= Len(s) /\ SubSeq(s, Len(s) - Len(p) + 1, Len(s)) = p

\* re.search(r"a.*b", s): a, later (not overlapping) b
SearchThen(a, b, s) ==
    \E i \in 0..(Len(s) - Len(a)) :
        /\ SubSeq(s, i + 1, i + Len(a)) = a
        /\ Contains(b, SubSeq(s, i + Len(a) + 1, Len(s)))

\* re.search(r"^get[a-z]*$", s)
SearchGetter(s) ==
    /\ StartsWith(s, "get")
    /\ \A i \in 4..Len(s) : Contains(SubSeq(s, i, i), LowerChars)

\* str.replace(old, new) for a one-character old
RECURSIVE ReplaceChar(_, _, _)
ReplaceChar(s, old, new) ==
    IF Len(s) = 0 THEN ""
    ELSE (IF SubSeq(s, 1, 1) = old THEN new ELSE SubSeq(s, 1, 1))
         \o ReplaceChar(SubSeq(s, 2, Len(s)), old, new)

\* a value that is not a string (Python None) where a name is expected
NoneVal == "<None>"

\* list membership and any() over a sequence
InSeq(x, seq) == \E i \in 1..Len(seq) : seq[i] = x
AnyArg(args, P(_)) == \E i \in 1..Len(args) : P(args[i])

Min(a, b) == IF a <= b THEN a ELSE b
Max(a, b) == IF a >= b THEN a ELSE b

---------------------------------------------------------------------------
(* data/indicators.json as the audit matchers read it.  The file is an     *)
(* input of the program; the entries below are the ones the matchers'      *)
(* module documentation lists.                                             *)

root_package_checks == <<"com.noshufou.android.su", "com.topjohnwu.magisk">>
root_execution_commands == <<"su", "which su", "id">>
root_file_existence_checks == <<"/system/bin/su", "/sbin/su">>
emu_telephony == <<"Android">>
emu_hardware_strings == <<"goldfish", "ranchu">>
emu_fingerprint == <<"generic">>
emu_model == <<"sdk">>
emu_device == <<"generic">>
emu_properties == <<"ro.kernel.qemu", "ro.hardware.virtual_device">>
anti_debugging == <<"isDebuggerConnected", "FLAG_DEBUGGABLE">>
anti_instrumentation == <<"frida", "xposed">>
utility_methods_to_ignore == <<"valueOf">>

\* ProtectionCandidate.confidence_level = None
NoLevel == -1

\* the (None, "") pair the _check_* methods return
NoEvidence == [c |-> NoLevel, e |-> ""]

\* the lexicographically first (i, j) with P(args[i], inds[j]): the pair the
\* nested loops "for arg in args: for x in inds: if P" stop at; <<0, 0>> if none
FirstPair(args, inds, P(_, _)) ==
    LET hitsAt == {ij \in (1..Len(args)) \X (1..Len(inds)) : P(args[ij[1]], inds[ij[2]])}
    IN  IF hitsAt = {} THEN <<0, 0>>
        ELSE CHOOSE ij \in hitsAt :
                 \A o \in hitsAt : ij[1] < o[1] \/ (ij[1] = o[1] /\ ij[2] <= o[2])

\* the first index i with P(seq[i]), 0 if none
FirstIdx(seq, P(_)) ==
    IF \E i \in 1..Len(seq) : P(seq[i])
    THEN CHOOSE i \in 1..Len(seq) : P(seq[i]) /\ \A j \in 1..(i - 1) : ~P(seq[j])
    ELSE 0

\* "confidence = min(confidence + 0.05, 1.0)" under "if is_conditional"
WithBonus(base, is_conditional) ==
    IF is_conditional THEN Min(base + 5, 100) ELSE base

---------------------------------------------------------------------------
(* core/patterns/root_detection_audit.py *)

Root_HIGH == 90
Root_MEDIUM == 70
Root_PATTERN_NAME == "Root Detection (High Confidence)"
Root_IMPACT_HINT == "Detects device root status with high confidence decision logic"

\* the regular expressions of utility_patterns, on the lower-cased name
RootUtilityPatterns(n) ==
    \/ Contains("tohex", n)
    \/ Contains("hexto", n)
    \/ SearchThen("byte", "array", n)
    \/ Contains("encode", n)
    \/ Contains("decode", n)
    \/ SearchThen("format", "string", n)
    \/ Contains("serialize", n)
    \/ Contains("deserialize", n)
    \/ SearchThen("parse", "json", n)
    \/ EndsWith(n, "_utils")
    \/ SearchGetter(n)
    \/ SearchThen("init", "array", n)
    \/ SearchThen("fill", "array", n)

IgnoreListed(n) ==
    \E i \in 1..Len(utility_methods_to_ignore) :
        Contains(Lower(utility_methods_to_ignore[i]), n)

Root_is_utility_function(sink_hit) ==
    LET method_name == Lower(sink_hit.method_name)
    IN  RootUtilityPatterns(method_name) \/ IgnoreListed(method_name)

Root_check_package_manager_detection(args, sink_name, is_conditional) ==
    LET P(arg, package) == Contains(Lower(package), Lower(arg))
        ij == FirstPair(args, root_package_checks, P)
    IN  IF ij = <<0, 0>> THEN NoEvidence
        ELSE [c |-> WithBonus(Root_HIGH, is_conditional),
              e |-> "Root app package check: " \o root_package_checks[ij[2]]
                    \o " detected in " \o sink_name]

Root_check_execution_detection(args, sink_name, is_conditional) ==
    LET P(arg, cmd) == \/ Lower(cmd) = Lower(arg)
                       \/ Contains(" " \o cmd, Lower(" " \o arg))
        ij == FirstPair(args, root_execution_commands, P)
    IN  IF ~(Contains("exec", Lower(sink_name)) \/ Contains("Runtime", sink_name))
        THEN NoEvidence
        ELSE IF ij = <<0, 0>> THEN NoEvidence
        ELSE [c |-> WithBonus(Root_HIGH, is_conditional),
              e |-> "Root execution check: '" \o root_execution_commands[ij[2]]
                    \o "' command via " \o sink_name]

\* a file-existence rule that adds the decision-logic bonus to the base
file_existence_with_bonus(args, sink_name, is_conditional) ==
    IF is_conditional
       /\ FirstPair(args, root_file_existence_checks,
                    LAMBDA arg, file_path : Contains(Lower(file_path), Lower(arg)))
          # <<0, 0>>
    THEN [c |-> WithBonus(Root_MEDIUM, is_conditional), e |-> "Root file check"]
    ELSE NoEvidence

Root_check_file_existence_detection(args, sink_name, is_conditional) ==
    LET P(arg, file_path) == Contains(Lower(file_path), Lower(arg))
        ij == FirstPair(args, root_file_existence_checks, P)
    IN  IF ~is_conditional THEN NoEvidence
        ELSE IF ij = <<0, 0>> THEN NoEvidence
        ELSE [c |-> Root_MEDIUM,
              e |-> "Root file check: " \o root_file_existence_checks[ij[2]]
                    \o " in decision logic"]

\* mount_patterns on the lower-cased argument
MountPattern(a) ==
    \/ \E i \in 0..(Len(a) - 5) :
           /\ SubSeq(a, i + 1, i + 5) = "mount"
           /\ SearchThen("-o", "rw", SubSeq(a, i + 6, Len(a)))
    \/ SearchThen("mount", "system", a)
    \/ Contains("ro.secure", a)

Root_check_mount_detection(args, sink_name, is_conditional) ==
    LET P(arg) == MountPattern(Lower(arg))
        i == FirstIdx(args, P)
    IN  IF i = 0 THEN NoEvidence
        ELSE [c |-> WithBonus(Root_MEDIUM, is_conditional),
              e |-> "Mount/RO-FS check: " \o args[i] \o " detected in " \o sink_name]

Root_evaluate_decision_logic(sink_hit) ==
    LET all_args == sink_hit.arguments
        sink_name == sink_hit.sink.name
        is_conditional == sink_hit.conditional
        r1 == Root_check_package_manager_detection(all_args, sink_name, is_conditional)
        r2 == Root_check_execution_detection(all_args, sink_name, is_conditional)
        r3 == Root_check_file_existence_detection(all_args, sink_name, is_conditional)
        r4 == Root_check_mount_detection(all_args, sink_name, is_conditional)
    IN  IF r1.c # NoLevel THEN r1
        ELSE IF r2.c # NoLevel THEN r2
        ELSE IF r3.c # NoLevel THEN r3
        ELSE IF r4.c # NoLevel THEN r4
        ELSE NoEvidence

\* what a matcher's match() does: return None, return a candidate, or raise
MatchNone == [kind |-> "none"]
MatchRaise == [kind |-> "raise"]
MatchCand(c) == [kind |-> "cand", cand |-> c]

\* ProtectionCandidate (core/analyzer/models.py) as the matchers build it
ProtectionCandidate(pattern_type, sink_hit, evidence, impact_hint, confidence_level) ==
    [pattern_type |-> pattern_type,
     location |-> [class |-> sink_hit.class_name,
                   method |-> sink_hit.method_name,
                   line |-> sink_hit.line_number,
                   layer |-> sink_hit.layer],
     evidence |-> evidence,
     impact_hint |-> impact_hint,
     confidence_signal |-> sink_hit,
     confidence_level |-> confidence_level]

\* the end of an audit's match(): "if confidence is None: return None", else
\* the candidate with the evaluated (confidence, evidence)
AuditResult(pattern_name, impact_hint, sink_hit, r) ==
    IF r.c = NoLevel THEN MatchNone
    ELSE MatchCand(ProtectionCandidate(pattern_name, sink_hit, r.e, impact_hint, r.c))

\* RootDetectionAudit.match; dict_ok: root_indicators is a dictionary
\* (on a list, self.root_indicators.get raises AttributeError)
RootDetectionAudit_match(sink_hit, dict_ok) ==
    IF sink_hit.sink.risk \notin {"Root Detection", "Environment Verification"}
    THEN MatchNone
    ELSE IF sink_hit.method_name = NoneVal THEN MatchRaise
    ELSE IF Root_is_utility_function(sink_hit) THEN MatchNone
    ELSE IF ~dict_ok THEN MatchRaise
    ELSE AuditResult(Root_PATTERN_NAME, Root_IMPACT_HINT, sink_hit,
                     Root_evaluate_decision_logic(sink_hit))

---------------------------------------------------------------------------
(* core/patterns/emulator_detection_audit.py *)

Emu_HARD_EVIDENCE == 95
Emu_STRONG == 80
Emu_MEDIUM == 65
Emu_PATTERN_NAME == "Emulator Detection (Hard Evidence)"
Emu_IMPACT_HINT == "Detects emulator/virtualized environment using hardware properties"

EmuUtilityPatterns(n) ==
    \/ Contains("tohex", n)
    \/ Contains("hexto", n)
    \/ Contains("encode", n)
    \/ Contains("decode", n)
    \/ SearchThen("format", "string", n)
    \/ Contains("serialize", n)
    \/ SearchThen("parse", "json", n)
    \/ EndsWith(n, "_utils")
    \/ SearchGetter(n)
    \/ SearchThen("init", "array", n)
    \/ SearchThen("fill", "array", n)

\* an audit without the utility-function filter
no_utility_filter(sink_hit) == FALSE

Emu_is_utility_function(sink_hit) ==
    LET method_name == Lower(sink_hit.method_name)
    IN  EmuUtilityPatterns(method_name) \/ IgnoreListed(method_name)

Emu_check_telephony_detection(args, sink_name) ==
    LET P(arg, indicator) == Contains(Lower(indicator), Lower(arg))
        Q(arg, indicator) == Lower(indicator) = Lower(arg)
        ij == FirstPair(args, emu_telephony, P)
        kl == FirstPair(args, emu_telephony, Q)
    IN  IF /\ (Contains("getNetworkOperatorName", sink_name)
               \/ Contains("getNetworkOperator", sink_name))
           /\ ij # <<0, 0>>
        THEN [c |-> Emu_HARD_EVIDENCE,
              e |-> "Emulator telephony check: NetworkOperator='" \o emu_telephony[ij[2]]
                    \o "' is definitive emulator indicator"]
        ELSE IF kl # <<0, 0>>
        THEN [c |-> Emu_HARD_EVIDENCE,
              e |-> "Emulator telephony check: Operator name '" \o emu_telephony[kl[2]]
                    \o "' detected"]
        ELSE NoEvidence

Emu_check_hardware_detection(args, sink_name, is_conditional) ==
    LET P(arg, hw_string) == Contains(Lower(hw_string), Lower(arg))
        ij == FirstPair(args, emu_hardware_strings, P)
    IN  IF /\ (\/ Contains("HARDWARE", sink_name)
               \/ Contains("getProperty", sink_name)
               \/ Contains("build", Lower(sink_name)))
           /\ ij # <<0, 0>>
        THEN [c |-> WithBonus(Emu_STRONG, is_conditional),
              e |-> "Emulator hardware check: '" \o emu_hardware_strings[ij[2]]
                    \o "' is known emulator hardware identifier"]
        ELSE NoEvidence

\* one pass of "for arg in args": fingerprint, then model, then device
Emu_build_property_of_arg(arg, is_conditional) ==
    LET P(ind) == Contains(Lower(ind), Lower(arg))
        f == FirstIdx(emu_fingerprint, P)
        m == FirstIdx(emu_model, P)
        d == FirstIdx(emu_device, P)
    IN  IF f # 0
        THEN [c |-> WithBonus(Emu_STRONG, is_conditional),
              e |-> "Emulator build property: FINGERPRINT contains '"
                    \o emu_fingerprint[f] \o "'"]
        ELSE IF m # 0
        THEN [c |-> WithBonus(Emu_STRONG, is_conditional),
              e |-> "Emulator build property: MODEL contains '" \o emu_model[m] \o "'"]
        ELSE IF d # 0
        THEN [c |-> WithBonus(Emu_STRONG, is_conditional),
              e |-> "Emulator build property: DEVICE contains '" \o emu_device[d] \o "'"]
        ELSE NoEvidence

Emu_check_build_property_detection(args, sink_name, is_conditional) ==
    LET P(arg) == Emu_build_property_of_arg(arg, is_conditional).c # NoLevel
        i == FirstIdx(args, P)
    IN  IF i = 0 THEN NoEvidence ELSE Emu_build_property_of_arg(args[i], is_conditional)

Emu_check_kernel_property_detection(args, sink_name, is_conditional) ==
    LET P(arg, prop) == Contains(Lower(prop), Lower(arg))
        ij == FirstPair(args, emu_properties, P)
    IN  IF ij = <<0, 0>> THEN NoEvidence
        ELSE [c |-> WithBonus(Emu_MEDIUM, is_conditional),
              e |-> "Emulator kernel property: '" \o emu_properties[ij[2]]
                    \o "' indicates virtual environment"]

\* re.search(r"size.*<\s*[0-3]", a) on the lower-cased argument
SearchSizeLess(a) ==
    \E i \in 1..Len(a), j \in 1..Len(a), k \in 1..Len(a) :
        /\ i + 4 <= j /\ j < k
        /\ SubSeq(a, i, i + 3) = "size"
        /\ SubSeq(a, j, j) = "<"
        /\ \A w \in (j + 1)..(k - 1) : SubSeq(a, w, w) = " "
        /\ Contains(SubSeq(a, k, k), "0123")

\* re.search(r"(sensor.*count|size.*<\s*[0-3]|getSensorList)", arg, re.IGNORECASE)
SensorPattern(arg) ==
    LET a == Lower(arg)
    IN  \/ SearchThen("sensor", "count", a)
        \/ SearchSizeLess(a)
        \/ Contains("getsensorlist", a)

Emu_check_sensor_detection(args, sink_name, is_conditional) ==
    IF /\ (Contains("sensor", Lower(sink_name)) \/ Contains("SensorManager", sink_name))
       /\ FirstIdx(args, SensorPattern) # 0
    THEN [c |-> WithBonus(Emu_MEDIUM, is_conditional),
          e |-> "Emulator sensor check: Limited sensor count detected (typical of emulator)"]
    ELSE NoEvidence

Emu_evaluate_hardware_logic(sink_hit) ==
    LET all_args == sink_hit.arguments
        sink_name == sink_hit.sink.name
        is_conditional == sink_hit.conditional
        r1 == Emu_check_telephony_detection(all_args, sink_name)
        r2 == Emu_check_hardware_detection(all_args, sink_name, is_conditional)
        r3 == Emu_check_build_property_detection(all_args, sink_name, is_conditional)
        r4 == Emu_check_kernel_property_detection(all_args, sink_name, is_conditional)
        r5 == Emu_check_sensor_detection(all_args, sink_name, is_conditional)
    IN  IF r1.c # NoLevel THEN r1
        ELSE IF r2.c # NoLevel THEN r2
        ELSE IF r3.c # NoLevel THEN r3
        ELSE IF r4.c # NoLevel THEN r4
        ELSE IF r5.c # NoLevel THEN r5
        ELSE NoEvidence

\* EmulatorDetectionAudit.match; dict_ok: emulator_indicators is a dictionary
EmulatorDetectionAudit_match(sink_hit, dict_ok) ==
    IF sink_hit.sink.risk \notin {"Emulator Detection", "Environment Verification"}
    THEN MatchNone
    ELSE IF sink_hit.method_name = NoneVal THEN MatchRaise
    ELSE IF Emu_is_utility_function(sink_hit) THEN MatchNone
    ELSE IF ~dict_ok THEN MatchRaise
    ELSE AuditResult(Emu_PATTERN_NAME, Emu_IMPACT_HINT, sink_hit,
                     Emu_evaluate_hardware_logic(sink_hit))

---------------------------------------------------------------------------
(* core/patterns/self_protection_audit.py *)

Self_HIGH == 85
Self_STRONG == 75
Self_PATTERN_NAME == "Self-Protection & Anti-Analysis (Active Defense)"
Self_IMPACT_HINT == "Active defense mechanism against debugging, instrumentation, or modification"

Self_is_utility_function(sink_hit) ==
    LET method_name == Lower(sink_hit.method_name)
    IN  EmuUtilityPatterns(method_name) \/ IgnoreListed(method_name)

AntiDebugEvidence(api) ==
    IF Contains("isDebuggerConnected", api)
    THEN "Anti-debugging: Direct debugger connection check via " \o api
    ELSE IF Contains("FLAG_DEBUGGABLE", api) \/ Contains("debuggable", Lower(api))
    THEN "Anti-debugging: Debuggable flag verification via " \o api
    ELSE "Anti-debugging: Debug mode detection via " \o api

Self_check_anti_debugging(args, sink_name, is_conditional) ==
    LET InName(api) == Contains(Lower(api), Lower(sink_name))
        n == FirstIdx(anti_debugging, InName)
        P(arg, api) == Contains(Lower(api), Lower(arg))
        ij == FirstPair(args, anti_debugging, P)
    IN  IF n # 0
        THEN [c |-> WithBonus(Self_HIGH, is_conditional),
              e |-> AntiDebugEvidence(anti_debugging[n])]
        ELSE IF ij # <<0, 0>>
        THEN [c |-> WithBonus(Self_HIGH, is_conditional),
              e |-> "Anti-debugging: " \o anti_debugging[ij[2]]
                    \o " detected in decision logic"]
        ELSE NoEvidence

AntiInstrEvidence(framework) ==
    IF Contains("frida", Lower(framework))
    THEN "Anti-instrumentation: Frida/GumJS detection mechanism"
    ELSE IF Contains("xposed", Lower(framework))
    THEN "Anti-instrumentation: Xposed framework detection"
    ELSE IF Contains("LD_PRELOAD", framework)
    THEN "Anti-instrumentation: LD_PRELOAD hook detection"
    ELSE "Anti-instrumentation: " \o framework \o " detection mechanism"

Self_check_anti_instrumentation(args, sink_name, is_conditional) ==
    LET InArg(arg, framework) == Contains(Lower(framework), Lower(arg))
        \* one pass of "for framework in anti_instr": the name, then the arguments
        Fires(framework) ==
            \/ Contains(Lower(framework), Lower(sink_name))
            \/ \E i \in 1..Len(args) : InArg(args[i], framework)
        f == FirstIdx(anti_instrumentation, Fires)
        StackArg(arg) == Contains("xposed", Lower(arg)) \/ Contains("frida", Lower(arg))
    IN  IF f # 0
        THEN [c |-> WithBonus(Self_HIGH, is_conditional),
              e |-> IF Contains(Lower(anti_instrumentation[f]), Lower(sink_name))
                    THEN AntiInstrEvidence(anti_instrumentation[f])
                    ELSE "Anti-instrumentation: String literal '" \o anti_instrumentation[f]
                         \o "' indicates " \o anti_instrumentation[f] \o " detection"]
        ELSE IF /\ (Contains("StackTrace", sink_name) \/ Contains("getStackTrace", sink_name))
                /\ FirstIdx(args, StackArg) # 0
        THEN [c |-> Self_STRONG,
              e |-> "Anti-instrumentation: StackTrace inspection for framework detection"]
        ELSE NoEvidence

hash_patterns == <<"MessageDigest", "SHA1", "SHA256", "SHA-1", "SHA-256">>
sig_methods == <<"verifySig", "checkSignature", "compareHash", "validateCert">>

Self_check_signature_verification(args, sink_name, is_conditional) ==
    LET SigArg(arg) == Contains("GET_SIGNATURES", arg) \/ Contains("SIGNATURES", arg)
        P(arg, pattern) == Contains(pattern, arg)
        ij == FirstPair(args, hash_patterns, P)
        InName(method) == Contains(Lower(method), Lower(sink_name))
        m == FirstIdx(sig_methods, InName)
    IN  IF /\ (Contains("getPackageInfo", sink_name) \/ Contains("PackageManager", sink_name))
           /\ FirstIdx(args, SigArg) # 0
        THEN [c |-> WithBonus(Self_STRONG, is_conditional),
              e |-> "Signature verification: Package signature retrieval for integrity check"]
        ELSE IF ij # <<0, 0>>
        THEN [c |-> WithBonus(Self_STRONG, is_conditional),
              e |-> "Signature verification: Hash algorithm '" \o hash_patterns[ij[2]]
                    \o "' for certificate validation"]
        ELSE IF m # 0
        THEN [c |-> WithBonus(Self_STRONG, is_conditional),
              e |-> "Signature verification: Certificate/signature validation via "
                    \o sig_methods[m]]
        ELSE NoEvidence

Self_evaluate_protection_logic(sink_hit) ==
    LET all_args == sink_hit.arguments
        sink_name == sink_hit.sink.name
        is_conditional == sink_hit.conditional
        r1 == Self_check_anti_debugging(all_args, sink_name, is_conditional)
        r2 == Self_check_anti_instrumentation(all_args, sink_name, is_conditional)
        r3 == Self_check_signature_verification(all_args, sink_name, is_conditional)
    IN  IF r1.c # NoLevel THEN r1
        ELSE IF r2.c # NoLevel THEN r2
        ELSE IF r3.c # NoLevel THEN r3
        ELSE NoEvidence

\* SelfProtectionAudit.match; dict_ok: anti_analysis is a dictionary
SelfProtectionAudit_match(sink_hit, dict_ok) ==
    IF sink_hit.sink.risk \notin {"Anti-Debugging", "Anti-Debugging Logic", "Anti-Analysis"}
    THEN MatchNone
    ELSE IF sink_hit.method_name = NoneVal THEN MatchRaise
    ELSE IF Self_is_utility_function(sink_hit) THEN MatchNone
    ELSE IF ~dict_ok THEN MatchRaise
    ELSE AuditResult(Self_PATTERN_NAME, Self_IMPACT_HINT, sink_hit,
                     Self_evaluate_protection_logic(sink_hit))

---------------------------------------------------------------------------
(* core/patterns/communication.py *)

\* SSLPinningPattern.match; context is the engine's {"frameworks": ...}
SSLPinningPattern_match(sink_hit, detected_fw) ==
    IF sink_hit.sink.risk = "Secure Communication"
    THEN LET upgraded == InSeq("Flutter", detected_fw) \/ sink_hit.sink.layer = "Native"
         IN  MatchCand(ProtectionCandidate(
                 IF upgraded THEN "Advanced SSL Pinning (Framework-level)"
                 ELSE "SSL Pinning",
                 sink_hit,
                 "Secure channel enforcement via " \o sink_hit.sink.name,
                 IF upgraded THEN "Blocks traffic interception (BoringSSL/Flutter/Native)"
                 ELSE "Blocks traffic interception",
                 NoLevel))
    ELSE MatchNone

---------------------------------------------------------------------------
(* core/patterns/engine.py *)

\* self.patterns, in order
Patterns == <<"ssl", "root", "emulator", "anti_analysis">>

\* pattern.match(hit, context=self.context) for the k-th pattern
PatternMatch(k, hit, fws, ok) ==
    CASE Patterns[k] = "ssl" -> SSLPinningPattern_match(hit, fws)
      [] Patterns[k] = "root" -> RootDetectionAudit_match(hit, "root" \in ok)
      [] Patterns[k] = "emulator" -> EmulatorDetectionAudit_match(hit, "emulator" \in ok)
      [] Patterns[k] = "anti_analysis" ->
             SelfProtectionAudit_match(hit, "anti_analysis" \in ok)

\* "for pattern in self.patterns" for one hit, from the k-th pattern on: the
\* candidate of the first pattern that returns one; a pattern that raises is
\* logged and the loop goes on with the next pattern (engine.py:30-38)
RECURSIVE TryPatterns(_, _, _, _)
\* an engine that gives up on a hit as soon as one matcher raises
stop_on_raise(result, k, hit, fws, ok) ==
    IF result.kind = "cand" THEN result
    ELSE IF result.kind = "raise" THEN MatchNone
    ELSE TryPatterns(k + 1, hit, fws, ok)

\* an engine that consults every matcher and keeps the last candidate
PreferLater(later, result) ==
    IF later.kind = "cand" THEN later
    ELSE IF result.kind = "cand" THEN result ELSE MatchNone
last_match_wins(result, k, hit, fws, ok) ==
    PreferLater(TryPatterns(k + 1, hit, fws, ok), result)

\* "if result: ... break", else on to the next pattern
AfterPattern(result, k, hit, fws, ok) ==
    IF result.kind = "cand" THEN result ELSE TryPatterns(k + 1, hit, fws, ok)

TryPatterns(k, hit, fws, ok) ==
    IF k > Len(Patterns) THEN MatchNone
    ELSE AfterPattern(PatternMatch(k, hit, fws, ok), k, hit, fws, ok)

\* str() of a name inside an f-string
StrOf(x) == IF x = NoneVal THEN "None" ELSE x

\* f"{hit.class_name}|{hit.method_name}|{hit.line_number}"
hit_location_id(hit) ==
    StrOf(hit.class_name) \o "|" \o StrOf(hit.method_name) \o "|" \o ToString(hit.line_number)

\* ProtectionPatternEngine.analyze, the loop over sink_hits from index i on
RECURSIVE AnalyzeFrom(_, _, _, _, _, _)
\* an engine that appends the candidate and does not record its location
no_location_record(result, i, sink_hits, processed_locations, acc, fws, ok) ==
    AnalyzeFrom(i + 1, sink_hits, processed_locations,
                IF result.kind = "cand" THEN Append(acc, result.cand) ELSE acc,
                fws, ok)

\* candidates.append(result); processed_locations.add(hit_location_id)
AfterHit(result, i, sink_hits, processed_locations, acc, fws, ok) ==
    AnalyzeFrom(i + 1, sink_hits,
                IF result.kind = "cand"
                THEN processed_locations \cup {hit_location_id(sink_hits[i])}
                ELSE processed_locations,
                IF result.kind = "cand" THEN Append(acc, result.cand) ELSE acc,
                fws, ok)

AnalyzeFrom(i, sink_hits, processed_locations, acc, fws, ok) ==
    IF i > Len(sink_hits) THEN acc
    ELSE IF hit_location_id(sink_hits[i]) \in processed_locations
    THEN AnalyzeFrom(i + 1, sink_hits, processed_locations, acc, fws, ok)
    ELSE AfterHit(TryPatterns(1, sink_hits[i], fws, ok), i, sink_hits,
                  processed_locations, acc, fws, ok)

ProtectionPatternEngine_analyze(sink_hits, fws, ok) ==
    AnalyzeFrom(1, sink_hits, {}, <<>>, fws, ok)

---------------------------------------------------------------------------
(* core/scoring/scorer.py *)

W_api == 40
W_string == 30
W_logic == 20
W_native == 10

\* ConfidenceScorer._get_val on an object: the attribute, else the key of
\* the object's sink dictionary, else False
GetVal(obj, key) ==
    IF key \in DOMAIN obj THEN obj[key]
    ELSE IF "sink" \in DOMAIN obj /\ key \in DOMAIN obj.sink THEN obj.sink[key]
    ELSE FALSE

\* getattr(signal, 'confidence_level', None)
ExplicitConfidence(signal) ==
    IF "confidence_level" \in DOMAIN signal THEN signal.confidence_level ELSE NoLevel

\* a scorer that counts the decision-logic weight twice and does not cap
score_uncapped(signal) ==
    W_api + W_string + W_native
    + (IF GetVal(signal, "conditional") = TRUE THEN 2 * W_logic ELSE 0)

\* ConfidenceScorer.score
ConfidenceScorer_score(signal) ==
    IF ExplicitConfidence(signal) # NoLevel
    THEN ExplicitConfidence(signal)
    ELSE Min(W_api
             + (IF GetVal(signal, "has_string_match") = TRUE THEN W_string ELSE 0)
             + (IF GetVal(signal, "conditional") = TRUE THEN W_logic ELSE 0)
             + (IF GetVal(signal, "layer") = "Native" THEN W_native ELSE 0),
             100)

\* ConfidenceScorer.breakdown
ConfidenceScorer_breakdown(signal) ==
    [api_match |-> TRUE,
     string_indicator |-> GetVal(signal, "has_string_match") = TRUE,
     control_flow |-> GetVal(signal, "conditional") = TRUE,
     native_layer |-> GetVal(signal, "layer") = "Native",
     explicit_audit_confidence |-> ExplicitConfidence(signal)]

---------------------------------------------------------------------------
(* core/localization/engine.py, core/localization/pipeline.py *)

\* re.sub(r'\(.*\).*', '()', method): from the first "(" that has a ")"
\* after it to the end of the name
clean_method_name(method) ==
    LET open == Find("(", method)
    IN  IF open # 0 /\ Contains(")", SubSeq(method, open + 1, Len(method)))
        THEN SubSeq(method, 1, open - 1) \o "()"
        ELSE method

\* the body of the try block raises: re.sub on a method name that is not a
\* string, str.replace on a class name that is not a string
LocalizeRaises(candidate) ==
    candidate.location.method = NoneVal \/ candidate.location.class = NoneVal

\* one candidate of LocalizationEngine.process, wrapped by
\* LocalizationPipeline.process into a LocalizedProtection
LocalizedProtection(candidate) ==
    LET clean_method == clean_method_name(candidate.location.method)
        class_name == candidate.location.class
    IN  [pattern_type |-> candidate.pattern_type,
         impact_hint |-> candidate.impact_hint,
         location |-> [class |-> class_name,
                       method |-> clean_method,
                       line |-> candidate.location.line,
                       layer |-> candidate.location.layer,
                       file_path |-> ReplaceChar(class_name, ".", "/") \o ".java",
                       full_signature |-> class_name \o " -> " \o clean_method],
         evidence |-> candidate.evidence,
         confidence_score |-> ConfidenceScorer_score(candidate.confidence_signal),
         confidence_breakdown |-> ConfidenceScorer_breakdown(candidate.confidence_signal)]

\* LocalizationPipeline.process: a candidate whose localization raises is
\* logged and left out (engine.py:34-35)
RECURSIVE LocalizationPipeline_process(_)
LocalizationPipeline_process(cands) ==
    IF Len(cands) = 0 THEN <<>>
    ELSE (IF LocalizeRaises(Head(cands)) THEN <<>>
          ELSE <<LocalizedProtection(Head(cands))>>)
         \o LocalizationPipeline_process(Tail(cands))

---------------------------------------------------------------------------
(* core/slicing/java_slicer.py *)

IsSpace(c) == c = " " \/ c = "\t"

RECURSIVE LStrip(_)
LStrip(s) ==
    IF Len(s) > 0 /\ IsSpace(SubSeq(s, 1, 1)) THEN LStrip(SubSeq(s, 2, Len(s))) ELSE s

RECURSIVE RStrip(_)
RStrip(s) ==
    IF Len(s) > 0 /\ IsSpace(SubSeq(s, Len(s), Len(s)))
    THEN RStrip(SubSeq(s, 1, Len(s) - 1)) ELSE s

Strip(s) == LStrip(RStrip(s))

executable_opcodes ==
    <<"invoke-", "const-string", "if-", "check-cast", "new-instance", "sget", "iget",
      "return", "throw">>

decision_instructions ==
    <<"if-eqz", "if-nez", "if-eq", "if-ne", "if-lt", "if-gt", "if-le", "if-ge",
      "if-eqz/range", "if-nez/range", "sparse-switch", "packed-switch", "return", "throw">>

AnyIn(ops, line) == \E k \in 1..Len(ops) : Contains(ops[k], line)

\* Indices are 0-based as in the code; source_lines[i] of the code is src[i + 1].
\* The result of a scan: [idx |-> ..., raised |-> a line that is not a string
\* was touched]; idx = -1 stands for None.
NoIdx == -1

\* _find_decision_point: the loop from index i on
RECURSIVE FindDecisionFrom(_, _, _, _)
FindDecisionFrom(i, src, sink_idx, first_invoke_seen) ==
    IF i >= Min(sink_idx + 30, Len(src)) THEN [idx |-> NoIdx, raised |-> FALSE]
    ELSE IF src[i + 1] = NoneVal THEN [idx |-> NoIdx, raised |-> TRUE]
    ELSE LET line_content == Strip(src[i + 1])
         IN  IF Len(line_content) = 0 \/ StartsWith(line_content, "#")
             THEN FindDecisionFrom(i + 1, src, sink_idx, first_invoke_seen)
             ELSE IF StartsWith(line_content, ".")
             THEN FindDecisionFrom(i + 1, src, sink_idx, first_invoke_seen)
             ELSE IF AnyIn(decision_instructions, line_content)
             THEN [idx |-> i, raised |-> FALSE]
             ELSE IF Contains("invoke-", line_content)
             THEN IF ~first_invoke_seen
                  THEN FindDecisionFrom(i + 1, src, sink_idx, TRUE)
                  ELSE IF i > sink_idx + 15
                  THEN [idx |-> NoIdx, raised |-> FALSE]
                  ELSE FindDecisionFrom(i + 1, src, sink_idx, first_invoke_seen)
             ELSE FindDecisionFrom(i + 1, src, sink_idx, first_invoke_seen)

\* a slicer that never looks for the decision point
no_decision_point(src, sink_idx) == [idx |-> NoIdx, raised |-> FALSE]

find_decision_point(src, sink_idx) == FindDecisionFrom(sink_idx + 1, src, sink_idx, FALSE)

\* "not fallback_idx": None or index 0
NotFallback(fallback_idx) == fallback_idx = NoIdx \/ fallback_idx = 0

\* slice, STEP 1: the loop from index i on; found |-> the loop broke on a sink
RECURSIVE FindSinkFrom(_, _, _, _)
FindSinkFrom(i, src, raw_idx, fallback_idx) ==
    IF i >= Min(raw_idx + 15, Len(src))
    THEN [found |-> FALSE, idx |-> fallback_idx, raised |-> FALSE]
    ELSE IF src[i + 1] = NoneVal
    THEN [found |-> FALSE, idx |-> fallback_idx, raised |-> TRUE]
    ELSE LET line_content == Strip(src[i + 1])
         IN  IF Len(line_content) = 0 \/ StartsWith(line_content, "#")
             THEN FindSinkFrom(i + 1, src, raw_idx, fallback_idx)
             ELSE IF StartsWith(line_content, ".")
             THEN IF /\ NotFallback(fallback_idx)
                     /\ ~AnyIn(executable_opcodes, line_content)
                     /\ (\/ Contains("=", line_content)
                         \/ Contains(":", line_content)
                         \/ Len(line_content) > 20)
                  THEN FindSinkFrom(i + 1, src, raw_idx, i)
                  ELSE FindSinkFrom(i + 1, src, raw_idx, fallback_idx)
             ELSE IF Contains("const-string", line_content) \/ Contains("invoke-", line_content)
             THEN [found |-> TRUE, idx |-> i, raised |-> FALSE]
             ELSE IF NotFallback(fallback_idx)
             THEN FindSinkFrom(i + 1, src, raw_idx, i)
             ELSE FindSinkFrom(i + 1, src, raw_idx, fallback_idx)

\* f"{n:04d}"
Pad4(n) ==
    LET t == ToString(n)
    IN  IF Len(t) >= 4 THEN t ELSE SubSeq("0000", 1, 4 - Len(t)) \o t

\* slice, the rendering loop from index i on; acc = [snippet, highlights, raised]
RECURSIVE RenderFrom(_, _, _, _, _, _, _)
RenderFrom(i, stop, start, src, sink_idx, decision_idx, acc) ==
    IF i >= stop \/ acc.raised THEN acc
    ELSE IF src[i + 1] = NoneVal THEN [acc EXCEPT !.raised = TRUE]
    ELSE LET content == RStrip(src[i + 1])
             content_stripped == Strip(content)
             marked == Len(content_stripped) > 0 /\ ~StartsWith(content_stripped, "#")
             is_sink == i = sink_idx
             is_decision == ~is_sink /\ decision_idx # NoIdx /\ i = decision_idx
             prefix == IF is_sink THEN "[*] " ELSE IF is_decision THEN "[!] " ELSE "    "
         IN  RenderFrom(i + 1, stop, start, src, sink_idx, decision_idx,
                 [snippet |-> Append(acc.snippet,
                                     "L" \o Pad4(i + 1) \o " " \o prefix \o " " \o content),
                  highlights |-> IF (is_sink \/ is_decision) /\ marked
                                 THEN Append(acc.highlights, i - start)
                                 ELSE acc.highlights,
                  raised |-> FALSE])

slice_window == 8

\* slice, STEP 1: the sink index the search settles on
sink_index(s1, raw_idx) ==
    IF s1.found THEN s1.idx
    ELSE IF s1.idx # NoIdx THEN s1.idx ELSE raw_idx

\* slice, STEP 4: the rendered window
Rendered(r, s1, d, sink_idx) ==
    IF s1.raised \/ d.raised
    THEN [snippet |-> <<>>, highlights |-> <<>>, raised |-> TRUE,
          sink_idx |-> sink_idx, decision_idx |-> d.idx]
    ELSE [snippet |-> r.snippet, highlights |-> r.highlights, raised |-> r.raised,
          sink_idx |-> sink_idx, decision_idx |-> d.idx]

\* slice, STEP 3: from max(0, sink - window) to min(len, end + window + 1)
Window(src, s1, d, sink_idx, start, stop) ==
    Rendered(RenderFrom(start, stop, start, src, sink_idx, d.idx,
                        [snippet |-> <<>>, highlights |-> <<>>, raised |-> FALSE]),
             s1, d, sink_idx)

\* slice, STEP 2: the decision point after the sink
WithDecision(src, s1, d, sink_idx) ==
    Window(src, s1, d, sink_idx, Max(0, sink_idx - slice_window),
           Min(Len(src), (IF d.idx # NoIdx THEN d.idx ELSE sink_idx) + slice_window + 1))

WithSink(src, s1, sink_idx) ==
    WithDecision(src, s1, find_decision_point(src, sink_idx), sink_idx)

FromRaw(src, raw_idx) ==
    WithSink(src, FindSinkFrom(raw_idx, src, raw_idx, NoIdx),
             sink_index(FindSinkFrom(raw_idx, src, raw_idx, NoIdx), raw_idx))

\* JavaCodeSlicer.slice(source_lines, line_number) with the default window
JavaCodeSlicer_slice(src, line_number) == FromRaw(src, Max(0, line_number - 1))

---------------------------------------------------------------------------
(* core/slicing/native_slicer.py *)

\* f"0x{i:08x}" for the indices the model reaches (below 16)
Hex8(i) == "0x0000000" \o SubSeq("0123456789abcdef", i + 1, i + 1)

RECURSIVE NativeRenderFrom(_, _, _)
NativeRenderFrom(i, stop, lines) ==
    IF i >= stop THEN <<>>
    ELSE <<Hex8(i) \o ": " \o StrOf(lines[i + 1])>> \o NativeRenderFrom(i + 1, stop, lines)

native_window == 5

\* NativeCodeSlicer.slice(disassembly_lines, offset): the second value is
\* the integer offset - start
NativeCodeSlicer_slice(lines, offset) ==
    LET start == Max(0, offset - native_window)
        stop == Min(Len(lines), offset + native_window + 1)
    IN  [snippet |-> NativeRenderFrom(start, stop, lines),
         highlights |-> offset - start,
         raised |-> FALSE]

---------------------------------------------------------------------------
(* core/slicing/semantic.py, core/slicing/slicer.py *)

\* SemanticLabeler.label
SemanticLabeler_label(pattern_type, evidence, location) ==
    LET labels ==
            CASE pattern_type = "Root / Emulator Detection" ->
                     <<"Environment Integrity Check: Searching for privileged binaries (su, magisk)",
                       "Infrastructure Validation: Inspecting system build tags and qemu props">>
              [] pattern_type = "SSL Pinning" ->
                     <<"Network Trust Anchor: Enforcing custom X.509 certificate validation",
                       "Communication Guard: Hardcoded public key pinning via OkHttp/TrustManager">>
              [] pattern_type = "Anti-Debugging" ->
                     <<"Runtime Shield: Detecting ptrace attachment or JDWP state",
                       "Analysis Prevention: Monitoring Debug.isDebuggerConnected() flags">>
              [] OTHER -> <<"Security-Relevant Logic Extraction">>
    IN  IF Contains("su", Lower(evidence)) /\ pattern_type = "Root / Emulator Detection"
        THEN labels[1]
        ELSE labels[Len(labels)]

\* "".join(snippet) and " ".join(snippet)
RECURSIVE Join(_, _)
Join(sep, lines) ==
    IF Len(lines) = 0 THEN ""
    ELSE IF Len(lines) = 1 THEN lines[1]
    ELSE lines[1] \o sep \o Join(sep, Tail(lines))

fingerprint_chars == 200

\* the snippet and highlights EvidenceSlicer.process computes before the
\* duplicate filter (slicer.py:14-27); the location carries no native_offset
\* key, so the native slicer is called with offset 0
SliceOnly(r) == [snippet |-> r.snippet, highlights |-> r.highlights, raised |-> r.raised]

RawSlice(lp, source_code) ==
    IF Len(source_code) = 0
    THEN [snippet |-> <<"// [!] Source code unavailable for context analysis">>,
          highlights |-> <<>>, raised |-> FALSE]
    ELSE IF lp.location.layer \in {"Java", "Application"}
    THEN SliceOnly(JavaCodeSlicer_slice(source_code, lp.location.line))
    ELSE NativeCodeSlicer_slice(source_code, 0)

\* evidence_content[:200]
Prefix(evidence_content) ==
    SubSeq(evidence_content, 1, Min(fingerprint_chars, Len(evidence_content)))

\* (class, method, hash(evidence_content[:200])); the hash is taken as
\* injective on the prefixes compared
evidence_fingerprint(lp, snippet) ==
    <<lp.location.class, lp.location.method, Prefix(Join("", snippet))>>

\* slicer.py:45-60: the duplicate filter and the EvidenceSlice
FilteredSlice(lp, raw, fp, processed_evidence) ==
    IF raw.raised
    THEN [raised |-> TRUE, processed |-> processed_evidence]
    ELSE [raised |-> FALSE,
          processed |-> processed_evidence \cup {fp},
          slice |-> [pattern_type |-> lp.pattern_type,
                     impact_hint |-> lp.impact_hint,
                     location |-> lp.location,
                     code_snippet |-> IF fp \in processed_evidence
                                      THEN <<"// [FILTERED] Duplicate evidence in same method">>
                                      ELSE raw.snippet,
                     highlighted_lines |-> IF fp \in processed_evidence THEN <<>>
                                           ELSE raw.highlights,
                     semantic_label |-> SemanticLabeler_label(lp.pattern_type,
                                                              lp.evidence, lp.location),
                     confidence_score |-> lp.confidence_score]]

WithFingerprint(lp, raw, processed_evidence) ==
    FilteredSlice(lp, raw, evidence_fingerprint(lp, raw.snippet), processed_evidence)

\* EvidenceSlicer.process(localized_protection, source_code) with the
\* instance's processed_evidence set
EvidenceSlicer_process(lp, source_code, processed_evidence) ==
    WithFingerprint(lp, RawSlice(lp, source_code), processed_evidence)

\* source_code_map.get(lp.location.get("class"), [])
SourceOf(map, class) == IF class \in DOMAIN map THEN map[class] ELSE <<>>

\* main.py:93-103: the loop over localized from index i on.  An exception
\* in any process call leaves the loop and the handler sets
\* evidence_slices = []
RECURSIVE SliceAllFrom(_, _, _, _, _)
AfterSlice(r, i, lps, map, acc) ==
    IF r.raised THEN [raised |-> TRUE, slices |-> <<>>]
    ELSE SliceAllFrom(i + 1, lps, map, r.processed, Append(acc, r.slice))

SliceAllFrom(i, lps, map, processed_evidence, acc) ==
    IF i > Len(lps) THEN [raised |-> FALSE, slices |-> acc]
    ELSE AfterSlice(EvidenceSlicer_process(lps[i], SourceOf(map, lps[i].location.class),
                                           processed_evidence),
                    i, lps, map, acc)

---------------------------------------------------------------------------
(* core/report/taxonomy.py, core/report/builder.py, core/report/grouping.py *)

\* TaxonomyMapper._infer_strategy
infer_strategy(evidence_slice) ==
    LET code == Join(" ", evidence_slice.code_snippet)
        sink_name == IF "sink_metadata" \in DOMAIN evidence_slice.location
                     THEN evidence_slice.location.sink_metadata.name
                     ELSE "None"
    IN  IF sink_name = "ptrace" THEN "Syscall / API-based"
        ELSE IF Contains("/proc/self/maps", code) THEN "Memory-based"
        ELSE IF Contains("/system", code) THEN "File / Path-based"
        ELSE IF Contains("CertificatePinner", code) \/ Contains("SSLContext", code)
        THEN "API-based"
        ELSE IF Contains("checksum", code) THEN "Checksum-based"
        ELSE "Control-flow-based"

\* TaxonomyMapper.map
TaxonomyMapper_map(evidence_slice) ==
    [purpose |-> evidence_slice.pattern_type,
     layer |-> evidence_slice.location.layer,
     strategy |-> infer_strategy(evidence_slice),
     impact |-> evidence_slice.impact_hint]

\* one FinalFinding of ReportBuilder.build
FinalFinding(e) ==
    [protection_type |-> e.pattern_type,
     taxonomy |-> TaxonomyMapper_map(e),
     location |-> e.location,
     semantic_label |-> e.semantic_label,
     confidence_score |-> e.confidence_score,
     evidence_snippet |-> e.code_snippet]

ReportBuilder_build(slices) == [i \in 1..Len(slices) |-> FinalFinding(slices[i])]

\* f"{f.protection_type}|{f.semantic_label}|{f.taxonomy['strategy']}"
group_key(f) == f.protection_type \o "|" \o f.semantic_label \o "|" \o f.taxonomy.strategy

\* the empty dictionary
EmptyDict == [k \in {} |-> k]

\* a grouping step that files the finding under its key but keeps the
\* entry's first score
group_step_first_score(grp, f) ==
    [k \in DOMAIN grp \cup {group_key(f)} |->
        IF k \in DOMAIN grp
        THEN [grp[k] EXCEPT !.locations =
                 IF k = group_key(f) /\ ~InSeq(f.location, grp[k].locations)
                 THEN Append(grp[k].locations, f.location)
                 ELSE grp[k].locations]
        ELSE [protection_type |-> f.protection_type,
              semantic_label |-> f.semantic_label,
              taxonomy |-> f.taxonomy,
              max_score |-> f.confidence_score,
              locations |-> <<f.location>>]]

\* one iteration of the loop of FindingGrouper.group
GroupStep(grp, f) ==
    LET key == group_key(f)
        entry == IF key \in DOMAIN grp THEN grp[key]
                 ELSE [protection_type |-> f.protection_type,
                       semantic_label |-> f.semantic_label,
                       taxonomy |-> f.taxonomy,
                       max_score |-> f.confidence_score,
                       locations |-> <<>>]
        withLoc == IF InSeq(f.location, entry.locations) THEN entry.locations
                   ELSE Append(entry.locations, f.location)
        updated == [entry EXCEPT !.locations = withLoc,
                                 !.max_score = Max(entry.max_score, f.confidence_score)]
    IN  [k \in DOMAIN grp \cup {key} |-> IF k = key THEN updated ELSE grp[k]]

\* FindingGrouper.group
RECURSIVE GroupFrom(_, _, _)
GroupFrom(i, fs, grp) ==
    IF i > Len(fs) THEN grp ELSE GroupFrom(i + 1, fs, GroupStep(grp, fs[i]))

FindingGrouper_group(fs) == GroupFrom(1, fs, EmptyDict)

---------------------------------------------------------------------------
(* core/sinks/registry.py, core/analyzer/analyzer.py, java_scanner.py *)

\* SinkHit (core/analyzer/models.py) as JavaSinkScanner.scan_method builds it
SinkHit(sink, class_name, method_name, line_number, arguments, conditional) ==
    [sink |-> sink, class_name |-> class_name, method_name |-> method_name,
     line_number |-> line_number, arguments |-> arguments,
     conditional |-> conditional, layer |-> "Java"]

\* what "for indicator in self.indicators.get(group, [])" iterates over: the
\* entries of a list, the keys of a dictionary
registry_root_indicators(ok) ==
    IF "root" \in ok
    THEN <<"package_checks", "execution_commands", "file_existence_checks">>
    ELSE root_file_existence_checks \o root_package_checks
registry_emulator_indicators(ok) ==
    IF "emulator" \in ok
    THEN <<"telephony", "hardware_strings", "build_properties", "properties">>
    ELSE emu_hardware_strings \o emu_properties

NoSink == [name |-> NoneVal]

\* SinkRegistry.match_string_indicator
match_string_indicator(string_val, ok) ==
    LET InVal(indicator) == Contains(indicator, string_val)
    IN  IF FirstIdx(registry_root_indicators(ok), InVal) # 0
        THEN [name |-> string_val, layer |-> "Java", risk |-> "Root Detection",
              confidence |-> 80, type |-> "string_match"]
        ELSE IF FirstIdx(registry_emulator_indicators(ok), InVal) # 0
        THEN [name |-> string_val, layer |-> "Java", risk |-> "Emulator Detection",
              confidence |-> 80, type |-> "string_match"]
        ELSE NoSink

\* SinkRegistry.match_sink for the invoke of a scanned line: the catalog's
\* sink for that call when the catalog was loaded, nothing when
\* SinkRegistry.__init__ fell back to the empty catalog
match_sink(line, cat) == IF cat = "ok" THEN line.sink ELSE NoSink

\* the hits JavaSinkScanner.scan_method adds for one line of a method
scan_line(line, cat, ok) ==
    IF line.kind = "invoke"
    THEN LET sink == match_sink(line, cat)
         IN  IF sink.name = NoneVal THEN <<>>
             ELSE <<SinkHit(sink, line.class_name, line.method_name, line.line_number,
                            line.arguments, line.conditional)>>
    ELSE LET sink == match_string_indicator(line.string_val, ok)
         IN  IF sink.name = NoneVal THEN <<>>
             ELSE <<SinkHit(sink, line.class_name, line.method_name, line.line_number,
                            <<line.string_val>>, line.conditional)>>

RECURSIVE ScanLines(_, _, _)
ScanLines(lines, cat, ok) ==
    IF Len(lines) = 0 THEN <<>>
    ELSE scan_line(Head(lines), cat, ok) \o ScanLines(Tail(lines), cat, ok)

\* StaticAnalyzer.analyze over the sink-relevant lines of the decompiled
\* classes; len(method_name) raises on a method whose name is not a string
StaticAnalyzer_analyze(classes, cat, ok) ==
    IF \E i \in 1..Len(classes) : classes[i].method_name = NoneVal
    THEN [raised |-> TRUE, hits |-> <<>>]
    ELSE [raised |-> FALSE, hits |-> ScanLines(classes, cat, ok)]

---------------------------------------------------------------------------
(* core/native/elf_loader.py, framework_identifier.py, analyzer.py *)

entropy_threshold == 720

\* f"{entropy:.2f}" of an entropy given in hundredths (below 10.00)
Fmt2(e) ==
    ToString(e \div 100) \o "." \o ToString((e % 100) \div 10) \o ToString(e % 10)

\* NativeSinkHit (core/native/models.py) as find_and_analyze_bins builds it
PackingHit(so) ==
    [sink |-> [name |-> "packed_native_binary", layer |-> "Native",
               risk |-> "Anti-Analysis"],
     library |-> so.name, offset |-> "0x0",
     evidence |-> "High Entropy: " \o Fmt2(so.entropy),
     is_syscall |-> FALSE, is_symbol |-> FALSE, is_string_based |-> FALSE,
     class_name |-> "NativeCode", method_name |-> "BinaryInstruction",
     line_number |-> 0, arguments |-> <<>>, conditional |-> FALSE,
     layer |-> "Native"]

RECURSIVE PackingHits(_)
PackingHits(files) ==
    IF Len(files) = 0 THEN <<>>
    ELSE (IF Head(files).entropy > entropy_threshold THEN <<PackingHit(Head(files))>>
          ELSE <<>>)
         \o PackingHits(Tail(files))

\* find_and_analyze_bins: rglob raises on a directory that is None, open
\* raises on a library that cannot be read
find_and_analyze_bins(apk_extract_dir) ==
    LET native_files == apk_extract_dir.libs
    IN  IF apk_extract_dir.path = NoneVal
        THEN [raised |-> TRUE, so_files |-> <<>>, hits |-> <<>>]
        ELSE IF \E i \in 1..Len(native_files) : ~native_files[i].readable
        THEN [raised |-> TRUE, so_files |-> <<>>, hits |-> <<>>]
        ELSE [raised |-> FALSE, so_files |-> native_files,
              hits |-> PackingHits(native_files)]

FRAMEWORK_LIBS ==
    <<[fw |-> "Flutter", libs |-> <<"libflutter.so", "libapp.so">>],
      [fw |-> "ReactNative", libs |-> <<"libreactnativejni.so", "libhermes.so">>],
      [fw |-> "Unity", libs |-> <<"libunity.so", "libmain.so", "libil2cpp.so">>],
      [fw |-> "Xamarin", libs |-> <<"libmonosgen-2.0.so", "libmonodroid.so">>],
      [fw |-> "Cordova", libs |-> <<"libchord.so">>]>>

\* FrameworkIdentifier.identify
FrameworkIdentifier_identify(lib_names) ==
    LET Detected(entry) ==
            \E i \in 1..Len(entry.libs), j \in 1..Len(lib_names) :
                Lower(entry.libs[i]) = Lower(lib_names[j])
        hit == SelectSeq(FRAMEWORK_LIBS, Detected)
    IN  [i \in 1..Len(hit) |-> hit[i].fw]

\* NativeAnalyzer.analyze_files: NativeEvidenceScanner.scan calls
\* sink_registry.get_sinks_by_layer, which SinkRegistry does not define; the
\* AttributeError is caught per file and the file skipped
NativeAnalyzer_analyze_files(so_files) == <<>>

---------------------------------------------------------------------------
(* Inputs of run_analysis: catalog sinks, sink-relevant lines of the        *)
(* decompiled classes, native libraries, class sources                      *)

\* entries of data/sink_catalog.json
SinkPinner == [name |-> "okhttp3.CertificatePinner.check", layer |-> "Java",
               risk |-> "Secure Communication", has_string_match |-> FALSE]
SinkFileExists == [name |-> "java.io.File.exists", layer |-> "Java",
                   risk |-> "Root Detection", has_string_match |-> TRUE]
SinkSysProp == [name |-> "android.os.SystemProperties.get", layer |-> "Java",
                risk |-> "Environment Verification", has_string_match |-> TRUE]
SinkDebugger == [name |-> "android.os.Debug.isDebuggerConnected", layer |-> "Java",
                 risk |-> "Anti-Debugging", has_string_match |-> FALSE]

InvokeLine(sink, class_name, method_name, line_number, arguments, conditional) ==
    [kind |-> "invoke", sink |-> sink, class_name |-> class_name,
     method_name |-> method_name, line_number |-> line_number,
     arguments |-> arguments, conditional |-> conditional]

ConstStringLine(string_val, class_name, method_name, line_number, conditional) ==
    [kind |-> "const-string", string_val |-> string_val, class_name |-> class_name,
     method_name |-> method_name, line_number |-> line_number,
     conditional |-> conditional]

\* the lines a decompiled application can hold
LinePool ==
    { InvokeLine(SinkPinner, "com.a.Net", "pin()V", 1, <<>>, FALSE),
      InvokeLine(SinkDebugger, "com.a.Net", "pin()V", 1, <<>>, FALSE),
      InvokeLine(SinkFileExists, "com.a.Root", "isRooted()Z", 2,
                 <<"/system/bin/su">>, TRUE),
      InvokeLine(SinkSysProp, "com.a.Root", "check", 2, <<"ro.kernel.qemu">>, TRUE),
      InvokeLine(SinkFileExists, "com.a.Root", "toHexString", 2,
                 <<"/system/bin/su">>, TRUE),
      InvokeLine(SinkPinner, NoneVal, "pin()V", 1, <<>>, FALSE),
      InvokeLine(SinkPinner, "com.a.Net", NoneVal, 1, <<>>, FALSE),
      ConstStringLine("/system/bin/su", "com.a.Root", "isRooted()Z", 1, TRUE) }

MaxLines == 2

RECURSIVE SeqsUpTo(_, _)
SeqsUpTo(S, n) ==
    IF n = 0 THEN {<<>>}
    ELSE LET shorter == SeqsUpTo(S, n - 1)
         IN  shorter \cup {Append(s, x) : s \in {t \in shorter : Len(t) = n - 1}, x \in S}

DecompiledInputs == SeqsUpTo(LinePool, MaxLines)

\* the extracted APK: no native library, a plain library, a packed Flutter
\* library, a library that cannot be read; or no directory at all
ApkDir(path, libs) == [path |-> path, libs |-> libs]

ApkDirInputs ==
    { ApkDir("extracted", <<>>),
      ApkDir("extracted", <<[name |-> "libfoo.so", readable |-> TRUE, entropy |-> 512]>>),
      ApkDir("extracted", <<[name |-> "libflutter.so", readable |-> TRUE, entropy |-> 791]>>),
      ApkDir("extracted", <<[name |-> "libflutter.so", readable |-> TRUE, entropy |-> 791],
                            [name |-> "libfoo.so", readable |-> FALSE, entropy |-> 0]>>),
      ApkDir(NoneVal, <<>>) }

RootSource ==
    <<"    const-string v0, \"/system/bin/su\"",
      "    invoke-virtual {v0}, Ljava/io/File;->exists()Z",
      "    move-result v1",
      "    if-eqz v1, :cond_0">>
NetSource ==
    <<"    invoke-virtual {v0, v1}, Lokhttp3/CertificatePinner;->check()V",
      "    return-void">>
\* a class whose line list holds an entry that is not a string
BrokenSource == <<"    invoke-static {}, La;->b()V", NoneVal>>

SourceMapInputs ==
    { [c \in {"com.a.Root", "com.a.Net"} |->
          IF c = "com.a.Root" THEN RootSource ELSE NetSource],
      [c \in {"com.a.Root", "com.a.Net"} |->
          IF c = "com.a.Root" THEN RootSource ELSE BrokenSource],
      [c \in {"com.a.Root", "com.a.Net"} |->
          IF c = "com.a.Root" THEN BrokenSource ELSE NetSource],
      [c \in {"com.a.Root"} |-> RootSource],
      EmptyDict }

IndicatorGroups == {"root", "emulator", "anti_analysis"}

IndicatorShapes ==
    { IndicatorGroups,
      IndicatorGroups \ {"root"},
      IndicatorGroups \ {"emulator"},
      IndicatorGroups \ {"anti_analysis"} }

CatalogStates == {"ok", "unreadable", "malformed"}

---------------------------------------------------------------------------
(* cli/main.py: run_analysis, one action per step *)

Steps == {"load", "scan_java", "scan_native", "classify", "localize", "slice", "report"}

\* SinkRegistry("data/sink_catalog.json"): a file that cannot be opened or
\* parsed leaves the empty catalog behind (registry.py:15-20); a parsed
\* catalog whose top level is not an object makes _flatten_catalog raise
SinkRegistry_init(cat) ==
    [raised |-> cat = "malformed", loaded |-> cat = "ok"]

\* a handler that resets the native outputs and keeps the bytecode hits
scan_failure_keeps_java(hits) ==
    [java_hits |-> hits, native_hits |-> <<>>, packing_hits |-> <<>>,
     detected_fws |-> <<>>]

\* the handler of step 2 (main.py:63-65); hits: java_hits when it is entered
scan_failure_defaults(hits) ==
    [java_hits |-> <<>>, native_hits |-> <<>>, packing_hits |-> <<>>,
     detected_fws |-> <<>>]

\* the locals of run_analysis before step 1
NoResults ==
    /\ java_hits = <<>> /\ native_hits = <<>> /\ packing_hits = <<>>
    /\ detected_fws = <<>> /\ candidates = <<>> /\ localized = <<>>
    /\ evidence_slices = <<>> /\ findings = <<>> /\ grouped = EmptyDict

NoHarness ==
    /\ mhit = NoSink /\ mres = MatchNone
    /\ ein = <<>> /\ eout = <<>> /\ gin = <<>> /\ gout = EmptyDict
    /\ calls = <<>> /\ fin = <<>> /\ fout = <<>>

NoArguments ==
    /\ decompiled_classes = <<>> /\ extracted_apk_dir = ApkDir("extracted", <<>>)
    /\ source_code_map = EmptyDict

Init ==
    /\ pc = "load"
    /\ catalog_state = "ok"
    /\ ind_ok = IndicatorGroups
    /\ ran = [s \in Steps |-> "-"]
    /\ NoArguments /\ NoResults /\ NoHarness

harness == <<mhit, mres, ein, eout, gin, gout, calls, fin, fout>>

\* step 1 (main.py:34-41)
LoadKnowledgeBase ==
    /\ pc = "load"
    /\ \E cat \in CatalogStates, ok \in IndicatorShapes :
          /\ catalog_state' = cat
          /\ ind_ok' = ok
          /\ IF SinkRegistry_init(cat).raised
             THEN /\ ran' = [ran EXCEPT !["load"] = "failed"]
                  /\ pc' = "done"
             ELSE /\ ran' = [ran EXCEPT !["load"] = "ok"]
                  /\ pc' = "scan_java"
    /\ UNCHANGED <<decompiled_classes, extracted_apk_dir, source_code_map, java_hits,
                   native_hits, packing_hits, detected_fws, candidates, localized,
                   evidence_slices, findings, grouped, harness>>

\* a handler of step 2 that lets the exception leave run_analysis
scan_failure_propagates(d, step) ==
    /\ UNCHANGED <<java_hits, native_hits, packing_hits, detected_fws>>
    /\ ran' = [ran EXCEPT ![step] = "raised"]
    /\ pc' = "raised"

\* the handler of step 2 taken: the four lists are reset and step 3 follows
ScanFailed(d, step) ==
    /\ java_hits' = d.java_hits
    /\ native_hits' = d.native_hits
    /\ packing_hits' = d.packing_hits
    /\ detected_fws' = d.detected_fws
    /\ ran' = [ran EXCEPT ![step] = "failed"]
    /\ pc' = "classify"

JavaScanned(r) ==
    IF r.raised
    THEN ScanFailed(scan_failure_defaults(java_hits), "scan_java")
    ELSE /\ java_hits' = r.hits
         /\ UNCHANGED <<native_hits, packing_hits, detected_fws>>
         /\ ran' = [ran EXCEPT !["scan_java"] = "ok"]
         /\ pc' = "scan_native"

LibNames(so_files) == [i \in 1..Len(so_files) |-> so_files[i].name]

NativeScanned(r) ==
    IF r.raised
    THEN ScanFailed(scan_failure_defaults(java_hits), "scan_native")
    ELSE /\ packing_hits' = r.hits
         /\ detected_fws' = FrameworkIdentifier_identify(LibNames(r.so_files))
         /\ native_hits' = NativeAnalyzer_analyze_files(r.so_files)
         /\ UNCHANGED java_hits
         /\ ran' = [ran EXCEPT !["scan_native"] = "ok"]
         /\ pc' = "classify"

Sliced(r) ==
    /\ evidence_slices' = r.slices
    /\ ran' = [ran EXCEPT !["slice"] = IF r.raised THEN "failed" ELSE "ok"]

Reported(built) ==
    /\ findings' = built
    /\ grouped' = FindingGrouper_group(built)

\* step 2a (main.py:45-49), with the handler of step 2
ScanJava ==
    /\ pc = "scan_java"
    /\ \E classes \in DecompiledInputs :
          /\ decompiled_classes' = classes
          /\ JavaScanned(StaticAnalyzer_analyze(classes, catalog_state, ind_ok))
    /\ UNCHANGED <<catalog_state, ind_ok, extracted_apk_dir, source_code_map,
                   candidates, localized, evidence_slices, findings, grouped, harness>>

\* step 2b (main.py:51-61), with the handler of step 2
ScanNative ==
    /\ pc = "scan_native"
    /\ \E dir \in ApkDirInputs :
          /\ extracted_apk_dir' = dir
          /\ NativeScanned(find_and_analyze_bins(dir))
    /\ UNCHANGED <<catalog_state, ind_ok, decompiled_classes, source_code_map,
                   candidates, localized, evidence_slices, findings, grouped, harness>>

\* main.py:71
all_hits == java_hits \o native_hits \o packing_hits

\* step 3 (main.py:69-76)
Classify ==
    /\ pc = "classify"
    /\ candidates' = ProtectionPatternEngine_analyze(all_hits, detected_fws, ind_ok)
    /\ ran' = [ran EXCEPT !["classify"] = "ok"]
    /\ pc' = "localize"
    /\ UNCHANGED <<catalog_state, ind_ok, decompiled_classes, extracted_apk_dir,
                   source_code_map, java_hits, native_hits, packing_hits, detected_fws,
                   localized, evidence_slices, findings, grouped, harness>>

\* step 4 (main.py:83-86)
Localize ==
    /\ pc = "localize"
    /\ localized' = LocalizationPipeline_process(candidates)
    /\ ran' = [ran EXCEPT !["localize"] = "ok"]
    /\ pc' = "slice"
    /\ UNCHANGED <<catalog_state, ind_ok, decompiled_classes, extracted_apk_dir,
                   source_code_map, java_hits, native_hits, packing_hits, detected_fws,
                   candidates, evidence_slices, findings, grouped, harness>>

\* step 5 (main.py:93-103)
Slice ==
    /\ pc = "slice"
    /\ \E map \in SourceMapInputs :
          /\ source_code_map' = map
          /\ Sliced(SliceAllFrom(1, localized, map, {}, <<>>))
    /\ pc' = "report"
    /\ UNCHANGED <<catalog_state, ind_ok, decompiled_classes, extracted_apk_dir,
                   java_hits, native_hits, packing_hits, detected_fws, candidates,
                   localized, findings, grouped, harness>>

\* step 6 and the return (main.py:107-119)
Report ==
    /\ pc = "report"
    /\ Reported(ReportBuilder_build(evidence_slices))
    /\ ran' = [ran EXCEPT !["report"] = "ok"]
    /\ pc' = "done"
    /\ UNCHANGED <<catalog_state, ind_ok, decompiled_classes, extracted_apk_dir,
                   source_code_map, java_hits, native_hits, packing_hits, detected_fws,
                   candidates, localized, evidence_slices, harness>>

Next ==
    \/ LoadKnowledgeBase
    \/ ScanJava
    \/ ScanNative
    \/ Classify
    \/ Localize
    \/ Slice
    \/ Report

Spec == Init /\ [][Next]_vars

---------------------------------------------------------------------------
(* The matchers on one hit: every combination of risk category, sink,      *)
(* method name, arguments and decision-logic flag                          *)

MatcherRisks ==
    {"Root Detection", "Environment Verification", "Emulator Detection",
     "Anti-Debugging", "Anti-Analysis", "Secure Communication"}
MatcherSinkNames ==
    {"java.io.File.exists", "java.lang.Runtime.exec",
     "android.os.Debug.isDebuggerConnected", "android.os.Build.HARDWARE"}
MatcherMethods ==
    {"isRooted()Z", "toHexString", "getvalue", "checkByteArray", "parseJsonBody",
     "valueOfFlag", NoneVal}
MatcherArguments ==
    {<<>>, <<"/system/bin/su">>, <<"su">>, <<"com.topjohnwu.magisk">>,
     <<"ro.kernel.qemu">>, <<"goldfish">>, <<"mount -o rw /system">>, <<"frida">>,
     <<"/sbin/su", "com.topjohnwu.magisk">>}

MatcherHits ==
    { SinkHit([name |-> n, layer |-> "Java", risk |-> r, has_string_match |-> FALSE],
              "com.a.Root", m, 2, a, c) :
        n \in MatcherSinkNames, r \in MatcherRisks, m \in MatcherMethods,
        a \in MatcherArguments, c \in BOOLEAN }

InitMatcher ==
    /\ pc = "match"
    /\ mhit \in MatcherHits
    /\ ind_ok \in IndicatorShapes
    /\ mres = MatchNone
    /\ catalog_state = "ok"
    /\ ran = [s \in Steps |-> "-"]
    /\ ein = <<>> /\ eout = <<>> /\ gin = <<>> /\ gout = EmptyDict
    /\ calls = <<>> /\ fin = <<>> /\ fout = <<>>
    /\ NoArguments /\ NoResults

\* pattern.match(hit) of the three audit matchers
MatchHit ==
    /\ pc = "match"
    /\ mres' = [root |-> RootDetectionAudit_match(mhit, "root" \in ind_ok),
                emulator |-> EmulatorDetectionAudit_match(mhit, "emulator" \in ind_ok),
                anti_analysis |->
                    SelfProtectionAudit_match(mhit, "anti_analysis" \in ind_ok)]
    /\ pc' = "matched"
    /\ UNCHANGED <<catalog_state, ind_ok, decompiled_classes, extracted_apk_dir,
                   source_code_map, java_hits, native_hits, packing_hits, detected_fws,
                   candidates, localized, evidence_slices, findings, grouped, ran,
                   mhit, ein, eout, gin, gout, calls, fin, fout>>

NextMatcher == MatchHit

SpecMatcher == InitMatcher /\ [][NextMatcher]_vars

---------------------------------------------------------------------------
(* ProtectionPatternEngine.analyze on a hit list *)

\* a hit of the native layer at the location every NativeSinkHit shares
NativeHit(sink) ==
    [sink |-> sink, library |-> "libfoo.so", offset |-> "0x10", evidence |-> sink.name,
     is_syscall |-> FALSE, is_symbol |-> TRUE, is_string_based |-> FALSE,
     class_name |-> "NativeCode", method_name |-> "BinaryInstruction",
     line_number |-> 0, arguments |-> <<>>, conditional |-> FALSE, layer |-> "Native"]

\* a getprop call in decision logic whose arguments name a kernel property
\* and a su path: the root audit and the emulator audit both recognise it
ProbeLine ==
    InvokeLine(SinkSysProp, "com.a.Root", "probe", 3,
               <<"ro.kernel.qemu", "/system/bin/su">>, TRUE)

EngineHitPool ==
    { scan_line(l, "ok", IndicatorGroups)[1] :
        l \in {k \in LinePool : k.kind = "invoke"} \cup {ProbeLine} }
    \cup { NativeHit([name |-> "SSL_set_custom_verify", layer |-> "Native",
                      risk |-> "Secure Communication"]),
           NativeHit([name |-> "isDebuggerConnected", layer |-> "Native",
                      risk |-> "Anti-Debugging Logic"]) }

MaxEngineHits == 2

InitEngine ==
    /\ pc = "analyze"
    /\ ein \in SeqsUpTo(EngineHitPool, MaxEngineHits)
    /\ detected_fws \in {<<>>, <<"Flutter">>}
    /\ ind_ok \in {IndicatorGroups, IndicatorGroups \ {"root"}}
    /\ eout = <<>>
    /\ catalog_state = "ok"
    /\ ran = [s \in Steps |-> "-"]
    /\ mhit = NoSink /\ mres = MatchNone /\ gin = <<>> /\ gout = EmptyDict
    /\ calls = <<>> /\ fin = <<>> /\ fout = <<>>
    /\ NoArguments
    /\ java_hits = <<>> /\ native_hits = <<>> /\ packing_hits = <<>>
    /\ candidates = <<>> /\ localized = <<>> /\ evidence_slices = <<>>
    /\ findings = <<>> /\ grouped = EmptyDict

Analyze ==
    /\ pc = "analyze"
    /\ eout' = ProtectionPatternEngine_analyze(ein, detected_fws, ind_ok)
    /\ pc' = "analyzed"
    /\ UNCHANGED <<catalog_state, ind_ok, decompiled_classes, extracted_apk_dir,
                   source_code_map, java_hits, native_hits, packing_hits, detected_fws,
                   candidates, localized, evidence_slices, findings, grouped, ran,
                   mhit, mres, ein, gin, gout, calls, fin, fout>>

NextEngine == Analyze

SpecEngine == InitEngine /\ [][NextEngine]_vars

---------------------------------------------------------------------------
(* FindingGrouper.group on a finding list *)

GroupLocation(line) ==
    [class |-> "com.a.Root", method |-> "isRooted()", line |-> line, layer |-> "Java",
     file_path |-> "com/a/Root.java", full_signature |-> "com.a.Root -> isRooted()"]

GroupFinding(ptype, label, strategy, line, score) ==
    [protection_type |-> ptype,
     taxonomy |-> [purpose |-> ptype, layer |-> "Java", strategy |-> strategy,
                   impact |-> "Blocks traffic interception"],
     location |-> GroupLocation(line),
     semantic_label |-> label,
     confidence_score |-> score,
     evidence_snippet |-> <<"L0001 [*]  invoke-virtual {v0}">>]

GroupKeys ==
    { <<"SSL Pinning", "Security-Relevant Logic Extraction", "API-based">>,
      <<"SSL Pinning", "Security-Relevant Logic Extraction", "Control-flow-based">>,
      <<"Root Detection (High Confidence)", "Security-Relevant Logic Extraction",
        "Control-flow-based">> }

FindingPool ==
    { GroupFinding(k[1], k[2], k[3], line, score) :
        k \in GroupKeys, line \in {1, 2}, score \in {40, 90} }

MaxFindings == 3

InitGroup ==
    /\ pc = "group"
    /\ gin \in SeqsUpTo(FindingPool, MaxFindings)
    /\ gout = EmptyDict
    /\ catalog_state = "ok"
    /\ ind_ok = IndicatorGroups
    /\ ran = [s \in Steps |-> "-"]
    /\ mhit = NoSink /\ mres = MatchNone /\ ein = <<>> /\ eout = <<>>
    /\ calls = <<>> /\ fin = <<>> /\ fout = <<>>
    /\ NoArguments /\ NoResults

Group ==
    /\ pc = "group"
    /\ gout' = FindingGrouper_group(gin)
    /\ pc' = "grouped"
    /\ UNCHANGED <<catalog_state, ind_ok, decompiled_classes, extracted_apk_dir,
                   source_code_map, java_hits, native_hits, packing_hits, detected_fws,
                   candidates, localized, evidence_slices, findings, grouped, ran,
                   mhit, mres, ein, eout, gin, calls, fin, fout>>

NextGroup == Group

SpecGroup == InitGroup /\ [][NextGroup]_vars

---------------------------------------------------------------------------
(* Properties *)

Range(seq) == {seq[i] : i \in 1..Len(seq)}

\* C1: every finding run_analysis returns, and every grouped entry's
\* max_score, has a confidence score between 0.0 and 1.0 (0 and 100
\* hundredths), whatever the string-match, decision-logic and layer flags of
\* the hit it comes from.
C1_ScoreInUnitInterval ==
    /\ \A f \in Range(findings) : 0 <= f.confidence_score /\ f.confidence_score <= 100
    /\ \A lp \in Range(localized) : 0 <= lp.confidence_score /\ lp.confidence_score <= 100
    /\ \A k \in DOMAIN grouped : 0 <= grouped[k].max_score /\ grouped[k].max_score <= 100

\* a returned finding of a decision-logic hit with a string match
C1_Witness ==
    /\ pc = "done"
    /\ \E f \in Range(findings) : f.confidence_score = W_api + W_string + W_logic
    /\ \E f \in Range(findings) : f.confidence_score = W_api

\* the orders in which the hits of a list can arrive
Reorderings(seq) ==
    { [i \in 1..Len(seq) |-> seq[p[i]]] :
        p \in {q \in [1..Len(seq) -> 1..Len(seq)] :
                   \A i, j \in 1..Len(seq) : q[i] = q[j] => i = j} }

LocationPatternPairs(cands) == {<<c.location, c.pattern_type>> : c \in Range(cands)}

\* C2: for any hit list and any permutation of it,
\* ProtectionPatternEngine.analyze yields the same number of candidates and
\* the same set of (location, pattern_type) pairs.
C2_OrderIndependent ==
    pc = "analyzed" =>
        \A other \in Reorderings(ein) :
            /\ Len(ProtectionPatternEngine_analyze(other, detected_fws, ind_ok)) = Len(eout)
            /\ LocationPatternPairs(ProtectionPatternEngine_analyze(other, detected_fws,
                                                                    ind_ok))
               = LocationPatternPairs(eout)


\* the localized entry of a candidate: step 4 keeps class, line, layer and
\* pattern type
LocalizedFrom(lp, c) ==
    /\ lp.pattern_type = c.pattern_type
    /\ lp.location.class = c.location.class
    /\ lp.location.line = c.location.line
    /\ lp.evidence = c.evidence

\* C3: when a candidate carries an explicit confidence level set by an audit
\* matcher, the confidence_score of its localized finding equals that level,
\* not the value of the weighted signal formula.
C3_ExplicitLevelUsed ==
    ran["localize"] = "ok" =>
        \A c \in Range(candidates) :
            c.confidence_level # NoLevel =>
                \A lp \in Range(localized) :
                    LocalizedFrom(lp, c) => lp.confidence_score = c.confidence_level


\* some argument contains one of the indicator strings, case-insensitively
ArgumentNames(args, indicators) ==
    \E i \in 1..Len(args), j \in 1..Len(indicators) :
        Contains(Lower(indicators[j]), Lower(args[i]))

\* a root-risk hit inside decision logic whose argument contains a known
\* root-binary path, no package or execution rule matching, handed to the
\* root audit with well-formed root indicators
C4_Case ==
    /\ pc = "matched"
    /\ mhit.sink.risk \in {"Root Detection", "Environment Verification"}
    /\ mhit.conditional
    /\ mhit.method_name # NoneVal
    /\ "root" \in ind_ok
    /\ ArgumentNames(mhit.arguments, root_file_existence_checks)
    /\ ~ArgumentNames(mhit.arguments, root_package_checks)
    /\ Root_check_execution_detection(mhit.arguments, mhit.sink.name, TRUE).c = NoLevel

RootUtilityName(name) == RootUtilityPatterns(Lower(name)) \/ IgnoreListed(Lower(name))

\* ... of the emulator and of the self-protection audit
AuditUtilityName(name) == EmuUtilityPatterns(Lower(name)) \/ IgnoreListed(Lower(name))

\* C5: a hit whose method name matches the utility-function heuristic (for
\* example toHexString) is never converted into a candidate by the root,
\* emulator or self-protection audit matcher, whatever its risk category,
\* arguments and decision-logic flag.
C5_UtilityNeverCandidate ==
    (pc = "matched" /\ mhit.method_name # NoneVal) =>
        /\ RootUtilityName(mhit.method_name) => mres.root.kind # "cand"
        /\ AuditUtilityName(mhit.method_name) =>
               mres.emulator.kind # "cand" /\ mres.anti_analysis.kind # "cand"
        /\ mhit.method_name = "toHexString" =>
               /\ mres.root.kind # "cand"
               /\ mres.emulator.kind # "cand"
               /\ mres.anti_analysis.kind # "cand"

\* toHexString in decision logic reading an emulator property: a hit the
\* emulator audit would convert under any other method name
C5_Witness ==
    /\ pc = "matched"
    /\ mhit.method_name = "toHexString"
    /\ mhit.sink.risk = "Environment Verification"
    /\ mhit.arguments = <<"ro.kernel.qemu">>
    /\ mhit.conditional
    /\ ind_ok = IndicatorGroups
    /\ mres.root.kind = "none"
    /\ mres.emulator.kind = "none"
    /\ Emu_evaluate_hardware_logic(mhit).c # NoLevel


\* the (pattern type, semantic label, strategy) key of a finding and of a
\* grouped entry
KeyOf(f) == <<f.protection_type, f.semantic_label, f.taxonomy.strategy>>

\* the findings of a list that fall under a key
WithKey(fs, key) == {f \in Range(fs) : KeyOf(f) = key}

MaxOf(S) == CHOOSE m \in S : \A x \in S : x <= m

\* what the claim says the grouping of fs is: per key the set of locations
\* and the maximum score
GroupingOf(fs) ==
    [key \in {KeyOf(f) : f \in Range(fs)} |->
        [locations |-> {f.location : f \in WithKey(fs, key)},
         max_score |-> MaxOf({f.confidence_score : f \in WithKey(fs, key)})]]

\* the entries of a grouped dictionary by their key, locations read as a set
AsSets(grp) ==
    [key \in {KeyOf(grp[k]) : k \in DOMAIN grp} |->
        LET k == CHOOSE d \in DOMAIN grp : KeyOf(grp[d]) = key
        IN  [locations |-> Range(grp[k].locations), max_score |-> grp[k].max_score]]

NoRepeats(seq) == \A i, j \in 1..Len(seq) : seq[i] = seq[j] => i = j

\* C6: for any sequence of findings, FindingGrouper.group produces exactly
\* one entry per distinct (pattern type, semantic label, strategy) key; the
\* entry's locations holds every distinct location of the findings with that
\* key exactly once, its max_score is the maximum confidence_score among
\* them, and this does not depend on the order of the findings.
C6_GroupPerKey ==
    pc = "grouped" =>
        /\ AsSets(gout) = GroupingOf(gin)
        /\ Cardinality(DOMAIN gout) = Cardinality({KeyOf(f) : f \in Range(gin)})
        /\ \A k \in DOMAIN gout : NoRepeats(gout[k].locations)
        /\ \A other \in Reorderings(gin) :
               AsSets(FindingGrouper_group(other)) = AsSets(gout)

\* three findings of one key at two locations, the highest score in the
\* middle, next to nothing else
C6_Witness ==
    /\ pc = "grouped"
    /\ Len(gin) = 3
    /\ Cardinality(DOMAIN gout) = 1
    /\ gin[1].location = gin[3].location
    /\ gin[1].location # gin[2].location
    /\ gin[2].confidence_score > gin[1].confidence_score
    /\ gin[2].confidence_score > gin[3].confidence_score
    /\ \A key \in DOMAIN gout :
           Len(gout[key].locations) = 2 /\ gout[key].max_score = gin[2].confidence_score


\* the sink catalog could not be loaded: the file cannot be opened or
\* parsed, or its content is not a catalog
CatalogLoadFailed == ran["load"] # "-" /\ catalog_state # "ok"

\* C7: if loading the sink catalog fails, run_analysis returns an empty
\* finding list and an empty group map, and no scanning, classification,
\* localization, slicing or reporting stage runs.
C7_CatalogFailureIsFatal ==
    CatalogLoadFailed =>
        /\ \A s \in Steps \ {"load"} : ran[s] = "-"
        /\ findings = <<>>
        /\ grouped = EmptyDict


\* the hits the bytecode scan produced in this run
BytecodeHits == StaticAnalyzer_analyze(decompiled_classes, catalog_state, ind_ok).hits

ScanningOver == pc \in {"classify", "localize", "slice", "report", "done"}

\* C8 as stated: a failure in one scanning stage (bytecode scan or
\* native-binary scan) empties only that stage's outputs; hits already
\* produced by the other scanning stage still reach the classification
\* engine, and the later stages run on them.
C8_OtherScannerKept ==
    (ScanningOver /\ ran["scan_java"] = "ok" /\ ran["scan_native"] = "failed") =>
        java_hits = BytecodeHits

\* C8 amended: a failure anywhere in the scanning step empties the outputs
\* of both scanners (bytecode hits, native hits, packing hits, frameworks),
\* including bytecode hits already produced when the native-binary scan
\* fails; classification and the later stages still run, on the empty hit
\* list, and the run returns no finding.  Without a failure the bytecode
\* hits reach the engine unchanged.
C8_ScanFailureEmptiesAll ==
    /\ (ScanningOver /\ (ran["scan_java"] = "failed" \/ ran["scan_native"] = "failed")) =>
           /\ java_hits = <<>> /\ native_hits = <<>>
           /\ packing_hits = <<>> /\ detected_fws = <<>>
           /\ candidates = <<>> /\ findings = <<>>
           /\ pc = "done" =>
                  \A s \in {"classify", "localize", "slice", "report"} : ran[s] = "ok"
    /\ (ScanningOver /\ ran["scan_java"] = "ok" /\ ran["scan_native"] = "ok") =>
           java_hits = BytecodeHits

\* a finished run whose bytecode scan found hits and whose native-binary
\* scan then failed
C8_Witness ==
    /\ pc = "done"
    /\ ran["scan_java"] = "ok"
    /\ ran["scan_native"] = "failed"
    /\ BytecodeHits # <<>>
    /\ java_hits = <<>>
    /\ ran["classify"] = "ok"


\* what each matcher, asked alone, answers for a hit in this run
Answers(h) == [k \in 1..Len(Patterns) |-> PatternMatch(k, h, detected_fws, ind_ok)]

\* the matchers the engine consults for a hit: up to the first candidate
Consulted(answers) ==
    {k \in DOMAIN answers : \A j \in 1..(k - 1) : answers[j].kind # "cand"}

\* a consulted matcher raised
RaisedIn(answers) == \E k \in Consulted(answers) : answers[k].kind = "raise"

\* some matcher returns a candidate
CandidateIn(answers) == \E k \in DOMAIN answers : answers[k].kind = "cand"

\* the candidate of the first matcher that returns one
FirstCandidateIn(answers) ==
    answers[CHOOSE k \in Consulted(answers) : answers[k].kind = "cand"].cand

\* the answers for each hit of a list
AnswersOf(hits) == [i \in 1..Len(hits) |-> Answers(hits[i])]

\* the positions of the hit list whose hit yields a candidate: a matcher
\* returns one and no earlier hit of the same location did
Yielding(hits, answers) ==
    {i \in 1..Len(hits) :
        /\ CandidateIn(answers[i])
        /\ \A j \in 1..(i - 1) :
               hit_location_id(hits[j]) = hit_location_id(hits[i])
                   => ~CandidateIn(answers[j])}

\* no candidate comes from a hit for which a consulted matcher raised
NoneFromRaising(hits, cands, answers) ==
    \A i \in 1..Len(hits) :
        RaisedIn(answers[i]) => \A c \in Range(cands) : c.confidence_signal # hits[i]

\* the candidates are those of the yielding positions, each the candidate of
\* the first matcher that returns one
FromYielding(hits, cands, answers, yielding) ==
    /\ Len(cands) = Cardinality(yielding)
    /\ \A i \in yielding :
           \E r \in 1..Len(cands) : cands[r] = FirstCandidateIn(answers[i])
    /\ \A c \in Range(cands) : \E i \in yielding : c.confidence_signal = hits[i]

RaisesSkipped(hits, cands, answers) ==
    FromYielding(hits, cands, answers, Yielding(hits, answers))

\* C9 as stated: if a matcher raises while classifying a hit, that hit
\* produces no candidate, and the engine continues with the next hit, whose
\* classification is unaffected.
C9_RaisingHitNoCandidate ==
    pc = "analyzed" => NoneFromRaising(ein, eout, AnswersOf(ein))

\* C9 amended: if a matcher raises while classifying a hit, that matcher
\* contributes no candidate, the matchers after it are still consulted, so
\* the hit yields the candidate of the first later matcher that returns one
\* and none otherwise; the engine continues with the next hit, whose
\* classification is unaffected.
C9_RaisingMatcherSkipped ==
    pc = "analyzed" => RaisesSkipped(ein, eout, AnswersOf(ein))

\* a hit for which the root audit raised and the emulator audit then
\* returned a candidate, followed by a hit that got its own candidate
C9_Witness ==
    /\ pc = "analyzed"
    /\ Len(ein) = 2
    /\ RaisedIn(Answers(ein[1]))
    /\ Len(eout) = 2
    /\ eout[1].confidence_signal = ein[1]
    /\ eout[1].pattern_type = Emu_PATTERN_NAME
    /\ eout[2].confidence_signal = ein[2]

---------------------------------------------------------------------------
(* C10: a failure of localization or slicing for one candidate *)

\* localization or evidence slicing fails for the candidate itself
FailsFor(c, map) ==
    \/ LocalizeRaises(c)
    \/ RawSlice(LocalizedProtection(c), SourceOf(map, c.location.class)).raised

\* the findings hold one for the candidate
FindingFor(c, fs) ==
    \E k \in 1..Len(fs) :
        /\ fs[k].protection_type = c.pattern_type
        /\ fs[k].location.class = c.location.class
        /\ fs[k].location.line = c.location.line

\* C10: if localization or evidence slicing fails for one candidate, only
\* that candidate is missing from the findings: every other candidate of the
\* run still yields its finding, and nothing is raised to the caller.
C10_OnlyFailingCandidateMissing ==
    pc = "done" =>
        \A i \in 1..Len(candidates) :
            ~FailsFor(candidates[i], source_code_map)
                => FindingFor(candidates[i], findings)
---------------------------------------------------------------------------
(* C11: a native library that cannot be read *)

\* the packing hit of a library is among the hits
PackingHitOf(so, hits) == \E k \in 1..Len(hits) : hits[k].library = so.name

\* every readable library of the directory above the entropy threshold has
\* its packing hit
ReadableLibsScanned(dir, hits) ==
    \A i \in 1..Len(dir.libs) :
        (dir.libs[i].readable /\ dir.libs[i].entropy > entropy_threshold)
            => PackingHitOf(dir.libs[i], hits)

\* C11: when reading one native library file fails, in the entropy pass or
\* in the symbol/string pass, that file alone is skipped: the other library
\* files are still scanned and their hits are kept.
C11_UnreadableLibSkipped ==
    (ScanningOver /\ ran["scan_java"] = "ok" /\ extracted_apk_dir.path # NoneVal)
        => ReadableLibsScanned(extracted_apk_dir, packing_hits)
---------------------------------------------------------------------------
(* C12: run_analysis returns whichever stage fails *)

\* the position of a step in run_analysis; the return is last
StepRank(p) ==
    CASE p = "load" -> 1 [] p = "scan_java" -> 2 [] p = "scan_native" -> 3
      [] p = "classify" -> 4 [] p = "localize" -> 5 [] p = "slice" -> 6
      [] p = "report" -> 7 [] p = "done" -> 8 [] OTHER -> 0

\* every stage behind the run ended normally or in its handler, or was
\* skipped by the handler of an earlier stage
StagesHandled ==
    \A s \in Steps :
        /\ ran[s] \in {"-", "ok", "failed"}
        /\ (StepRank(s) < StepRank(pc) /\ ran[s] = "-") =>
               \E t \in Steps : StepRank(t) < StepRank(s) /\ ran[t] = "failed"

\* the run is at a step of run_analysis or has returned its (findings,
\* grouped) pair; a run whose knowledge-base load failed returns the empty
\* pair
AtStepOrReturned ==
    /\ StepRank(pc) > 0
    /\ StagesHandled
    /\ (pc = "done" /\ ran["load"] = "failed") => (findings = <<>> /\ grouped = EmptyDict)

\* C12: run_analysis always terminates by returning a (findings, grouped)
\* pair and never propagates an exception to its caller, whichever stage
\* fails: the run is always at one of its steps or at the return, every
\* stage behind it ended normally or in its handler, and every step moves
\* the run forward toward the return.
C12_AlwaysReturns ==
    /\ []AtStepOrReturned
    /\ [][StepRank(pc') > StepRank(pc)]_vars

\* a run that returned after its scanning step and its slicing step failed
C12_Witness ==
    /\ pc = "done"
    /\ ran["scan_native"] = "failed"
    /\ ran["report"] = "ok"
    /\ findings = <<>>
---------------------------------------------------------------------------
(* C13: first matching pattern wins *)

\* the four matchers asked alone for a hit, in the order SSL pinning, root
\* audit, emulator audit, self-protection audit
OrderedAnswers(h) ==
    <<SSLPinningPattern_match(h, detected_fws),
      RootDetectionAudit_match(h, "root" \in ind_ok),
      EmulatorDetectionAudit_match(h, "emulator" \in ind_ok),
      SelfProtectionAudit_match(h, "anti_analysis" \in ind_ok)>>

OrderedAnswersOf(hits) == [i \in 1..Len(hits) |-> OrderedAnswers(hits[i])]

\* the candidates emitted for the hit at position i
EmittedFor(hits, cands, i) ==
    {r \in 1..Len(cands) : cands[r].confidence_signal = hits[i]}

\* each hit contributes at most one candidate, and a candidate is the one of
\* the first matcher, in the fixed order, that returns one
FirstMatchWins(hits, cands, answers) ==
    \A i \in 1..Len(hits) :
        /\ Cardinality(EmittedFor(hits, cands, i)) <= 1
        /\ \A r \in EmittedFor(hits, cands, i) :
               /\ CandidateIn(answers[i])
               /\ cands[r] = FirstCandidateIn(answers[i])

\* C13: for each hit not skipped by dedup, matchers are consulted in the
\* fixed order SSL pinning, root audit, emulator audit, self-protection
\* audit; the candidate emitted is the one returned by the first matcher
\* that returns a candidate, no later matcher is consulted for that hit, and
\* so a hit contributes at most one candidate.
C13_FirstMatchWins ==
    pc = "analyzed" => FirstMatchWins(ein, eout, OrderedAnswersOf(ein))

\* a hit for which the root audit and the emulator audit both return a
\* candidate, classified as root detection
C13_Witness ==
    /\ pc = "analyzed"
    /\ Len(ein) = 1
    /\ RootDetectionAudit_match(ein[1], "root" \in ind_ok).kind = "cand"
    /\ EmulatorDetectionAudit_match(ein[1], "emulator" \in ind_ok).kind = "cand"
    /\ Len(eout) = 1
    /\ eout[1].pattern_type = Root_PATTERN_NAME
---------------------------------------------------------------------------
(* C14: one candidate per location *)

\* the (class, method, line) location of a candidate
LocationOf(c) == <<c.location.class, c.location.method, c.location.line>>

\* C14: in the candidate list returned by one ProtectionPatternEngine.analyze
\* call, no two candidates have the same (class, method, line) location, for
\* any hit list: once a location has yielded a candidate, every later hit at
\* that location is skipped.
C14_OneCandidatePerLocation ==
    pc = "analyzed" =>
        \A r, q \in 1..Len(eout) :
            LocationOf(eout[r]) = LocationOf(eout[q]) => r = q

\* two different hits at one location, each recognised by a matcher, of
\* which only the first yielded a candidate
C14_Witness ==
    /\ pc = "analyzed"
    /\ Len(ein) = 2
    /\ ein[1] # ein[2]
    /\ hit_location_id(ein[1]) = hit_location_id(ein[2])
    /\ CandidateIn(Answers(ein[2]))
    /\ Len(eout) = 1
    /\ eout[1].confidence_signal = ein[1]
---------------------------------------------------------------------------
(* Two ProtectionPatternEngine.analyze invocations on one engine instance, *)
(* their loop iterations interleaved in any order                          *)

\* the locals of one analyze invocation at its entry (engine.py:19-20); i is
\* the position of the loop over sink_hits
CallLocals(sink_hits) ==
    [sink_hits |-> sink_hits, i |-> 1, processed_locations |-> {},
     candidates |-> <<>>]

\* a location set kept on the engine and shared by its invocations
shared_locations(c, k) ==
    UNION {c[j].processed_locations : j \in DOMAIN c}

\* the processed_locations an invocation reads: its own local (engine.py:27)
own_locations(c, k) == c[k].processed_locations

\* engine.py:33-35 for the hit at the loop position
IterateResult(result, loc, id) ==
    [loc EXCEPT !.i = @ + 1,
                !.processed_locations = IF result.kind = "cand" THEN @ \cup {id} ELSE @,
                !.candidates = IF result.kind = "cand" THEN Append(@, result.cand)
                               ELSE @]

IterateHit(c, k, hit) ==
    IF hit_location_id(hit) \in own_locations(c, k)
    THEN [c[k] EXCEPT !.i = @ + 1]
    ELSE IterateResult(TryPatterns(1, hit, detected_fws, ind_ok), c[k],
                       hit_location_id(hit))

\* one iteration of "for hit in sink_hits" of invocation k (engine.py:22-38)
Iterate(c, k) == IterateHit(c, k, c[k].sink_hits[c[k].i])

\* two hits at one location, each recognised by a matcher
CallHitPool ==
    { scan_line(l, "ok", IndicatorGroups)[1] :
        l \in { InvokeLine(SinkPinner, "com.a.Net", "pin()V", 1, <<>>, FALSE),
                InvokeLine(SinkDebugger, "com.a.Net", "pin()V", 1, <<>>, FALSE) } }

MaxCallHits == 2

InitCalls ==
    /\ pc = "calls"
    /\ calls \in { <<CallLocals(h1), CallLocals(h2)>> :
                     h1, h2 \in SeqsUpTo(CallHitPool, MaxCallHits) }
    /\ detected_fws = <<>>
    /\ ind_ok = IndicatorGroups
    /\ catalog_state = "ok"
    /\ ran = [s \in Steps |-> "-"]
    /\ mhit = NoSink /\ mres = MatchNone
    /\ ein = <<>> /\ eout = <<>> /\ gin = <<>> /\ gout = EmptyDict
    /\ fin = <<>> /\ fout = <<>>
    /\ NoArguments
    /\ java_hits = <<>> /\ native_hits = <<>> /\ packing_hits = <<>>
    /\ candidates = <<>> /\ localized = <<>> /\ evidence_slices = <<>>
    /\ findings = <<>> /\ grouped = EmptyDict

CallStep(k) ==
    /\ pc = "calls"
    /\ calls[k].i <= Len(calls[k].sink_hits)
    /\ calls' = [calls EXCEPT ![k] = Iterate(calls, k)]
    /\ UNCHANGED <<pc, catalog_state, ind_ok, decompiled_classes, extracted_apk_dir,
                   source_code_map, java_hits, native_hits, packing_hits, detected_fws,
                   candidates, localized, evidence_slices, findings, grouped, ran,
                   mhit, mres, ein, eout, gin, gout, fin, fout>>

NextCalls == \E k \in {1, 2} : CallStep(k)

SpecCalls == InitCalls /\ [][NextCalls]_vars

\* the invocation has returned (engine.py:40)
Returned(loc) == loc.i > Len(loc.sink_hits)

\* C15: the engine's processed-location set is fresh for every analyze
\* invocation: for any two hit lists H1 and H2, analysing H2 after (or
\* interleaved with) an analysis of H1, also on the same engine instance,
\* returns the same candidates as analysing H2 on a new engine; no location
\* processed in one invocation suppresses a hit of another.
C15_FreshLocationSet ==
    pc = "calls" =>
        \A k \in {1, 2} :
            Returned(calls[k]) =>
                calls[k].candidates
                    = ProtectionPatternEngine_analyze(calls[k].sink_hits, detected_fws,
                                                      ind_ok)

\* both invocations have returned a candidate for the same location
C15_Witness ==
    /\ pc = "calls"
    /\ Returned(calls[1]) /\ Returned(calls[2])
    /\ calls[1].candidates # <<>>
    /\ calls[2].candidates # <<>>
    /\ calls[1].candidates[1].location = calls[2].candidates[1].location

---------------------------------------------------------------------------
(* SinkRegistry.match_sink and SinkRegistry.is_security_relevant_call *)

\* everything of the pipeline at rest while one function is applied on its own
everything_else == <<catalog_state, ind_ok, decompiled_classes, extracted_apk_dir,
                     source_code_map, java_hits, native_hits, packing_hits,
                     detected_fws, candidates, localized, evidence_slices, findings,
                     grouped, ran, mhit, mres, ein, eout, gin, gout, calls>>

AtRest ==
    /\ detected_fws = <<>>
    /\ ind_ok = IndicatorGroups
    /\ catalog_state = "ok"
    /\ ran = [s \in Steps |-> "-"]
    /\ mhit = NoSink /\ mres = MatchNone
    /\ ein = <<>> /\ eout = <<>> /\ gin = <<>> /\ gout = EmptyDict
    /\ calls = <<>>
    /\ NoArguments
    /\ java_hits = <<>> /\ native_hits = <<>> /\ packing_hits = <<>>
    /\ candidates = <<>> /\ localized = <<>> /\ evidence_slices = <<>>
    /\ findings = <<>> /\ grouped = EmptyDict

\* one sink of the catalog; match_type NoneVal when the key is absent
SinkDefinition(name, match_type, dual_use, suspicious_args) ==
    [name |-> name, match_type |-> match_type, dual_use |-> dual_use,
     suspicious_args |-> suspicious_args]

\* Python None where a sink is expected
NoSinkDefinition == SinkDefinition(NoneVal, NoneVal, FALSE, <<>>)

\* re.search(pattern, s) for a pattern of literal characters and "."
re_search(pattern, s) ==
    \E p \in 0..(Len(s) - Len(pattern)) :
        \A j \in 1..Len(pattern) :
            \/ SubSeq(pattern, j, j) = "."
            \/ SubSeq(pattern, j, j) = SubSeq(s, p + j, p + j)

\* sink.get("match_type", "fqn")
match_type_of(sink) == IF sink.match_type = NoneVal THEN "fqn" ELSE sink.match_type

\* the native branch matching on containment instead of equality
native_by_containment(sink, api_call) ==
    CASE match_type_of(sink) = "fqn" ->
            Contains(sink.name, api_call) \/ Contains(api_call, sink.name)
      [] match_type_of(sink) = "regex" -> re_search(sink.name, api_call)
      [] match_type_of(sink) = "native" -> Contains(sink.name, api_call)
      [] match_type_of(sink) = "path" -> Contains(sink.name, api_call)
      [] OTHER -> FALSE

\* the if/elif chain of one iteration of match_sink (registry.py:53-73)
sink_accepts(sink, api_call) ==
    CASE match_type_of(sink) = "fqn" ->
            Contains(sink.name, api_call) \/ Contains(api_call, sink.name)
      [] match_type_of(sink) = "regex" -> re_search(sink.name, api_call)
      [] match_type_of(sink) = "native" -> api_call = sink.name
      [] match_type_of(sink) = "path" -> Contains(sink.name, api_call)
      [] OTHER -> FALSE

RECURSIVE match_sink_from(_, _, _)
\* the loop of match_sink from the i-th sink on
match_sink_from(i, flattened_sinks, api_call) ==
    IF i > Len(flattened_sinks) THEN NoSinkDefinition
    ELSE IF sink_accepts(flattened_sinks[i], api_call) THEN flattened_sinks[i]
    ELSE match_sink_from(i + 1, flattened_sinks, api_call)

\* SinkRegistry.match_sink over the flattened catalog
SinkRegistry_match_sink(flattened_sinks, api_call) ==
    match_sink_from(1, flattened_sinks, api_call)

\* every sink counted as relevant, whatever the arguments
relevant_whatever_args(sink, call_args) == sink.name # NoneVal

\* SinkRegistry.is_security_relevant_call
is_security_relevant_call(sink, call_args) ==
    IF sink.name = NoneVal THEN FALSE
    ELSE IF ~sink.dual_use THEN TRUE
    ELSE \E a \in 1..Len(call_args) :
            \E h \in 1..Len(sink.suspicious_args) :
                Contains(sink.suspicious_args[h], call_args[a])

DefFileExists ==
    SinkDefinition("java.io.File.exists", "fqn", TRUE, <<"/su", "magisk">>)
DefDebugRegex == SinkDefinition("Debug.isDebuggerConnected", "regex", FALSE, <<>>)
DefPtrace == SinkDefinition("ptrace", "native", FALSE, <<>>)
DefProcMaps == SinkDefinition("/proc/self/maps", "path", TRUE, <<"maps">>)
DefOpen == SinkDefinition("open", NoneVal, FALSE, <<>>)

DefinitionPool == {DefFileExists, DefDebugRegex, DefPtrace, DefProcMaps, DefOpen}

SignaturePool ==
    {"java.io.File.exists", "File.exists", "android/os/Debug/isDebuggerConnected",
     "ptrace", "ptrace_open", "cat /proc/self/maps", "com.app.update_open_status"}

CallArgsPool ==
    {<<>>, <<"/system/xbin/su">>, <<"/sdcard/user/data.txt">>,
     <<"/sdcard/user/data.txt", "/data/magisk.db">>}

MaxSinks == 2

InitRegistry ==
    /\ pc = "registry"
    /\ fin \in [flattened_sinks : SeqsUpTo(DefinitionPool, MaxSinks),
                api_call : SignaturePool,
                sink : DefinitionPool \cup {NoSinkDefinition},
                call_args : CallArgsPool]
    /\ fout = <<>>
    /\ AtRest

\* sink = registry.match_sink(api_call)
MatchSink ==
    /\ pc = "registry"
    /\ fout' = [sink |-> SinkRegistry_match_sink(fin.flattened_sinks, fin.api_call),
                relevant |-> NoneVal]
    /\ pc' = "matched"
    /\ UNCHANGED <<fin, everything_else>>

\* registry.is_security_relevant_call(sink, call_args)
JudgeCall ==
    /\ pc = "matched"
    /\ fout' = [fout EXCEPT !.relevant = is_security_relevant_call(fin.sink, fin.call_args)]
    /\ pc' = "judged"
    /\ UNCHANGED <<fin, everything_else>>

NextRegistry == MatchSink \/ JudgeCall

SpecRegistry == InitRegistry /\ [][NextRegistry]_vars

\* what the statement says of one sink and one signature
AcceptsUnderItsType(sink, signature) ==
    /\ match_type_of(sink) = "fqn" =>
          (Contains(sink.name, signature) \/ Contains(signature, sink.name))
    /\ match_type_of(sink) = "regex" => re_search(sink.name, signature)
    /\ match_type_of(sink) = "native" => signature = sink.name
    /\ match_type_of(sink) = "path" => Contains(sink.name, signature)
    /\ match_type_of(sink) \in {"fqn", "regex", "native", "path"}

FirstAccepting(sinks, signature, returned) ==
    IF \E i \in 1..Len(sinks) : AcceptsUnderItsType(sinks[i], signature)
    THEN \E i \in 1..Len(sinks) :
            /\ returned = sinks[i]
            /\ AcceptsUnderItsType(sinks[i], signature)
            /\ \A j \in 1..(i - 1) : ~AcceptsUnderItsType(sinks[j], signature)
    ELSE returned = NoSinkDefinition

\* C16: match_sink returns the first sink of the catalog, in catalog order,
\* that accepts the signature under its match type, and None when no sink
\* does: an fqn sink accepts when either string contains the other, a regex
\* sink when its pattern is found in the signature, a native sink only on
\* equality, a path sink when the signature contains its name.
C16_FirstAcceptingSink ==
    pc \in {"matched", "judged"} =>
        FirstAccepting(fin.flattened_sinks, fin.api_call, fout.sink)

\* a native sink whose name is merely contained in the signature was passed
\* over and the later sink, which accepts the signature, was returned
C16_Witness ==
    /\ pc = "matched"
    /\ fin.api_call = "ptrace_open"
    /\ fin.flattened_sinks = <<DefPtrace, DefOpen>>
    /\ fout.sink = DefOpen


\* some argument contains one of the sink's suspicious-argument hints
SuspiciousArgument(sink, args) ==
    \E a \in 1..Len(args), h \in 1..Len(sink.suspicious_args) :
        Contains(sink.suspicious_args[h], args[a])

\* C17: is_security_relevant_call(sink, args) is true for every sink not
\* flagged dual-use; for a dual-use sink it is true exactly when at least one
\* argument contains one of the sink's suspicious-argument hints, and false
\* otherwise, an empty argument list included.
C17_RelevantCall ==
    (pc = "judged" /\ fin.sink # NoSinkDefinition) =>
        /\ ~fin.sink.dual_use => fout.relevant = TRUE
        /\ fin.sink.dual_use =>
              (fout.relevant = TRUE <=> SuspiciousArgument(fin.sink, fin.call_args))
        /\ (fin.sink.dual_use /\ fin.call_args = <<>>) => fout.relevant = FALSE
        /\ fout.relevant \in BOOLEAN

\* a dual-use sink was judged irrelevant for arguments that carry no hint
C17_Witness ==
    /\ pc = "judged"
    /\ fin.sink = DefFileExists
    /\ fin.call_args = <<"/sdcard/user/data.txt">>
    /\ fout.relevant = FALSE

---------------------------------------------------------------------------
(* scorer_v2: ConfidenceScorer.score_signal and MethodLevelScorer.score_method;
   confidences in hundredths *)

\* ConfidenceScorer.weights, in hundredths
weights == [api |-> 40, string |-> 20, logic |-> 15, native |-> 10, context |-> 5,
            redundancy |-> 10]

\* a signal dictionary; sink is whether the key "sink" holds a sink, and a
\* context_strength of 0 also stands for an absent key
Signal(sink, has_api_match, has_string_match, conditional, layer, context_strength) ==
    [sink |-> sink, has_api_match |-> has_api_match,
     has_string_match |-> has_string_match, conditional |-> conditional,
     layer |-> layer, context_strength |-> context_strength]

\* the factors score_signal reads off a signal (scorer_v2.py:139-164)
SignalFactors(signal) ==
    [has_api_match |-> signal.has_api_match \/ signal.sink,
     has_string_match |-> signal.has_string_match,
     has_conditional_logic |-> signal.conditional,
     is_native_layer |-> signal.layer = "Native",
     context_strength |-> IF signal.context_strength > 0
                          THEN Min(signal.context_strength, 100) ELSE 0]

\* sum([...]) over the four boolean factors
indicators_found(factors) ==
    (IF factors.has_api_match THEN 1 ELSE 0)
    + (IF factors.has_string_match THEN 1 ELSE 0)
    + (IF factors.has_conditional_logic THEN 1 ELSE 0)
    + (IF factors.is_native_layer THEN 1 ELSE 0)

\* the score without the redundancy bonus, in ten-thousandths
factor_score(factors) ==
    (IF factors.has_api_match THEN 100 * weights.api ELSE 0)
    + (IF factors.has_string_match THEN 100 * weights.string ELSE 0)
    + (IF factors.has_conditional_logic THEN 100 * weights.logic ELSE 0)
    + (IF factors.is_native_layer THEN 100 * weights.native ELSE 0)
    + weights.context * factors.context_strength

\* the score before the cap, in ten-thousandths (scorer_v2.py:139-175)
raw_score(factors) ==
    factor_score(factors)
    + (IF indicators_found(factors) >= 3 THEN 100 * weights.redundancy ELSE 0)

\* round(x, 2) of x in ten-thousandths, to hundredths
round2(x) == (x + 50) \div 100

\* ConfidenceScorer.score_signal: the confidence and the factor breakdown
ConfidenceScorer_score_signal(signal) ==
    [confidence |-> round2(Min(raw_score(SignalFactors(signal)), 10000)),
     factors |-> [has_api_match |-> SignalFactors(signal).has_api_match,
                  has_string_match |-> SignalFactors(signal).has_string_match,
                  has_conditional_logic |-> SignalFactors(signal).has_conditional_logic,
                  is_native_layer |-> SignalFactors(signal).is_native_layer,
                  has_multiple_checks |-> indicators_found(SignalFactors(signal)) >= 3,
                  is_in_callback |-> FALSE,
                  context_strength |-> SignalFactors(signal).context_strength]]

\* confidences = [scorer.score_signal(s)[0] for s in signals]
confidences_of(signals) ==
    [i \in 1..Len(signals) |-> ConfidenceScorer_score_signal(signals[i]).confidence]

RECURSIVE sum_of(_)
sum_of(seq) == IF seq = <<>> THEN 0 ELSE seq[1] + sum_of(Tail(seq))

max_of(seq) == CHOOSE m \in {seq[i] : i \in 1..Len(seq)} :
                   \A i \in 1..Len(seq) : seq[i] <= m

\* the sophistication analysis (scorer_v2.py:243-251)
sophistication_of(num_signals, max_confidence) ==
    IF num_signals = 1 THEN "simple"
    ELSE IF num_signals <= 3 /\ max_confidence >= 70 THEN "moderate"
    ELSE IF num_signals <= 5 /\ max_confidence >= 80 THEN "advanced"
    ELSE "sophisticated"

\* scorer_v2.py:255-260, in hundredths
sophistication_bonus == [simple |-> 20, moderate |-> 50, advanced |-> 75,
                         sophisticated |-> 100]

\* round(num / den, 0): the nearest integer; on an exact tie the code rounds
\* the binary floating-point value, which lies on either side, so both
\* neighbours are possible
rounded(num, den) ==
    IF 2 * (num % den) = den THEN {num \div den, (num \div den) + 1}
    ELSE IF 2 * (num % den) > den THEN {(num \div den) + 1}
    ELSE {num \div den}

MethodScore(num_signals, avg, max, method_confidence, sophistication_level) ==
    [num_signals |-> num_signals, avg_signal_confidence |-> avg,
     max_signal_confidence |-> max, method_confidence |-> method_confidence,
     sophistication_level |-> sophistication_level]

\* the scores of a non-empty signal list (scorer_v2.py:236-274)
score_signals(n, total, max, level) ==
    { MethodScore(n, avg, max, mc, level) :
        avg \in rounded(total, n),
        mc \in rounded(40 * total + 30 * n * max + 30 * n * sophistication_bonus[level],
                       100 * n) }

\* MethodLevelScorer.score_method: the results the call can return
MethodLevelScorer_score_method(signals) ==
    IF signals = <<>> THEN {MethodScore(0, 0, 0, 0, "none")}
    ELSE score_signals(Len(signals), sum_of(confidences_of(signals)),
                       max_of(confidences_of(signals)),
                       sophistication_of(Len(signals), max_of(confidences_of(signals))))

Layers == {"Java", "Native"}
ContextStrengths == {0, 20, 100, 150}

SignalInputs ==
    { Signal(sink, api, str, cond, layer, cs) :
        sink \in BOOLEAN, api \in BOOLEAN, str \in BOOLEAN, cond \in BOOLEAN,
        layer \in Layers, cs \in ContextStrengths }

\* the signals of test_scoring_v2.py and three more: no factor, three
\* factors, every factor
MethodSignalPool ==
    { Signal(FALSE, FALSE, FALSE, FALSE, "Java", 0),
      Signal(TRUE, FALSE, FALSE, FALSE, "Java", 0),
      Signal(TRUE, FALSE, TRUE, FALSE, "Java", 0),
      Signal(TRUE, FALSE, FALSE, TRUE, "Java", 0),
      Signal(TRUE, FALSE, TRUE, FALSE, "Native", 0),
      Signal(TRUE, FALSE, TRUE, TRUE, "Native", 100) }

MaxSignals == 3

InitScorerV2 ==
    /\ \/ pc = "score_signal" /\ fin \in {[signal |-> s] : s \in SignalInputs}
       \/ /\ pc = "score_method"
          /\ fin \in {[signals |-> l] : l \in SeqsUpTo(MethodSignalPool, MaxSignals)}
    /\ fout = <<>>
    /\ AtRest

\* conf, factors = scorer.score_signal(signal)
ScoreSignal ==
    /\ pc = "score_signal"
    /\ fout' = ConfidenceScorer_score_signal(fin.signal)
    /\ pc' = "signal_scored"
    /\ UNCHANGED <<fin, everything_else>>

\* score = MethodLevelScorer.score_method(method_name, signals)
ScoreMethod ==
    /\ pc = "score_method"
    /\ fout' \in MethodLevelScorer_score_method(fin.signals)
    /\ pc' = "method_scored"
    /\ UNCHANGED <<fin, everything_else>>

NextScorerV2 == ScoreSignal \/ ScoreMethod

SpecScorerV2 == InitScorerV2 /\ [][NextScorerV2]_vars

\* C18: the v2 signal scorer gives exactly 0.75 to a signal that has an
\* API/sink match, a string match and conditional logic, is not in the native
\* layer and carries no context strength.
C18_ApiStringLogic ==
    ( /\ pc = "signal_scored"
      /\ fin.signal.sink \/ fin.signal.has_api_match
      /\ fin.signal.has_string_match
      /\ fin.signal.conditional
      /\ fin.signal.layer # "Native"
      /\ fin.signal.context_strength = 0 )
    => fout.confidence = 75

\* C19: score_method rates a method of two or three signals 'moderate' or
\* 'advanced', a method of exactly one signal 'simple', and gives a method of
\* no signal the level 'none' and the method confidence 0.0.
C19_MethodLevels ==
    pc = "method_scored" =>
        /\ Len(fin.signals) \in {2, 3} =>
              fout.sophistication_level \in {"moderate", "advanced"}
        /\ Len(fin.signals) = 1 => fout.sophistication_level = "simple"
        /\ Len(fin.signals) = 0 =>
              (fout.sophistication_level = "none" /\ fout.method_confidence = 0)

---------------------------------------------------------------------------
(* elf_loader.calculate_entropy; entropies in ten-thousandths of a bit *)

\* math.log2 of the odd numbers 1, 3, .., 15, in ten-thousandths
log2_odd == <<0, 15850, 23219, 28074, 31699, 34594, 37004, 39069>>

RECURSIVE log2(_)
\* math.log2(n), in ten-thousandths, for n = 2^k * j with j odd and below 16
log2(n) == IF n % 2 = 0 THEN 10000 + log2(n \div 2) ELSE log2_odd[(n + 1) \div 2]

\* data.count(x)
count(data, x) == Cardinality({i \in 1..Len(data) : data[i] = x})

\* length * (- p_x * math.log2(p_x)) for a byte that occurs c times
term(c, length) == IF c > 0 THEN c * (log2(length) - log2(c)) ELSE 0

RECURSIVE entropy_between(_, _, _)
\* the sum of the loop "for x in range(256)" over the byte values lo..hi,
\* times the length
entropy_between(lo, hi, data) ==
    IF lo = hi THEN term(count(data, lo), Len(data))
    ELSE entropy_between(lo, (lo + hi) \div 2, data)
         + entropy_between(((lo + hi) \div 2) + 1, hi, data)

\* every position counted as a symbol of its own
entropy_of_positions(data) == IF data = <<>> THEN 0 ELSE log2(Len(data))

\* calculate_entropy(data)
calculate_entropy(data) ==
    IF data = <<>> THEN 0 ELSE entropy_between(0, 255, data) \div Len(data)

\* the body of the loop of find_and_analyze_bins for one library whose
\* content has the given entropy (elf_loader.py:23-32)
packing_hits_of(name, entropy) ==
    IF entropy > 100 * entropy_threshold
    THEN <<PackingHit([name |-> name, readable |-> TRUE, entropy |-> round2(entropy)])>>
    ELSE <<>>

\* n bytes of value b
Fill(b, n) == [i \in 1..n |-> b]

\* m copies of a block of bytes
Repeat(block, m) == [i \in 1..(m * Len(block)) |-> block[((i - 1) % Len(block)) + 1]]

\* the 256 byte values in order
AllBytes == [i \in 1..256 |-> i - 1]

\* the byte values below 128 in order
LowBytes == [i \in 1..128 |-> i - 1]

MaxLen == 4
MaxRepeat == 2
ByteSamples == {0, 65, 255}

Buffers ==
    SeqsUpTo(ByteSamples, MaxLen)
    \cup {Fill(0, 8 * n) : n \in 1..MaxLen}
    \cup {Repeat(AllBytes, m) : m \in 1..MaxRepeat}
    \cup {Repeat(LowBytes, 2 * m) : m \in 1..MaxRepeat}
    \cup {Repeat(AllBytes, m) \o Repeat(LowBytes, 2 * m) : m \in 1..MaxRepeat}

InitEntropy ==
    /\ pc = "read"
    /\ fin \in {[library |-> "libapp.so", data |-> d] : d \in Buffers}
    /\ fout = <<>>
    /\ AtRest

\* entropy = calculate_entropy(data)
CalculateEntropy ==
    /\ pc = "read"
    /\ fout' = [entropy |-> calculate_entropy(fin.data), hits |-> <<>>]
    /\ pc' = "measured"
    /\ UNCHANGED <<fin, everything_else>>

\* if entropy > 7.2: pre_analysis_hits.append(...)
CheckPacking ==
    /\ pc = "measured"
    /\ fout' = [fout EXCEPT !.hits = packing_hits_of(fin.library, fout.entropy)]
    /\ pc' = "checked"
    /\ UNCHANGED <<fin, everything_else>>

NextEntropy == CalculateEntropy \/ CheckPacking

SpecEntropy == InitEntropy /\ [][NextEntropy]_vars

AllZero(data) == \A i \in 1..Len(data) : data[i] = 0

\* all 256 byte values occur, equally often
Equidistributed(data) ==
    /\ data # <<>>
    /\ \A x \in 0..255 : 256 * count(data, x) = Len(data)

\* C20: calculate_entropy returns 0 for a buffer of any length whose bytes
\* are all zero, and 8.0 within 0.01 for a buffer in which all 256 byte
\* values occur equally often; an all-zero binary never produces a
\* packed-binary hit.
C20_EntropyEnds ==
    pc \in {"measured", "checked"} =>
        /\ AllZero(fin.data) => (fout.entropy = 0 /\ fout.hits = <<>>)
        /\ Equidistributed(fin.data) =>
              (fout.entropy >= 80000 - 100 /\ fout.entropy <= 80000 + 100)

\* an all-zero binary of several bytes went through the packing check
C20_Witness ==
    /\ pc = "checked"
    /\ Len(fin.data) >= 8
    /\ AllZero(fin.data)
    /\ fout.hits = <<>>

---------------------------------------------------------------------------
(* JavaSinkScanner over the text of a method (core/analyzer/java_scanner.py) *)

Ch(s, i) == SubSeq(s, i, i)

\* the first position from `from` on at which the character c stands, 0 if none
FirstPos(c, s, from) ==
    IF \E k \in from..Len(s) : Ch(s, k) = c
    THEN CHOOSE k \in from..Len(s) :
             Ch(s, k) = c /\ \A j \in from..(k - 1) : Ch(s, j) # c
    ELSE 0

\* the last position at which the character c stands, 0 if none
LastPos(c, s) ==
    IF \E k \in 1..Len(s) : Ch(s, k) = c
    THEN CHOOSE k \in 1..Len(s) :
             Ch(s, k) = c /\ \A j \in (k + 1)..Len(s) : Ch(s, j) # c
    ELSE 0

RECURSIVE LStripChar(_, _)
\* str.lstrip(c)
LStripChar(s, c) ==
    IF Len(s) > 0 /\ Ch(s, 1) = c THEN LStripChar(SubSeq(s, 2, Len(s)), c) ELSE s

RECURSIVE RStripChar(_, _)
\* str.rstrip(c)
RStripChar(s, c) ==
    IF Len(s) > 0 /\ Ch(s, Len(s)) = c THEN RStripChar(SubSeq(s, 1, Len(s) - 1), c) ELSE s

RECURSIVE Split(_, _)
\* str.split(c) for a one-character separator
Split(s, c) ==
    IF FirstPos(c, s, 1) = 0 THEN <<s>>
    ELSE <<SubSeq(s, 1, FirstPos(c, s, 1) - 1)>>
         \o Split(SubSeq(s, FirstPos(c, s, 1) + 1, Len(s)), c)

\* line.split(",")[-1].strip().strip('"')
literal_of(line) ==
    RStripChar(LStripChar(Strip(SubSeq(line, LastPos(",", line) + 1, Len(line))), "\""),
               "\"")

\* re.search(r"\{([^\}]+)\}", line): the positions of the braces of the
\* leftmost match, <<0, 0>> when there is none
BraceMatch(line) ==
    IF \E i \in 1..Len(line) :
          Ch(line, i) = "{" /\ FirstPos("}", line, i + 1) > i + 1
    THEN <<CHOOSE i \in 1..Len(line) :
             /\ Ch(line, i) = "{" /\ FirstPos("}", line, i + 1) > i + 1
             /\ \A j \in 1..(i - 1) :
                   ~(Ch(line, j) = "{" /\ FirstPos("}", line, j + 1) > j + 1),
           0>>
    ELSE <<0, 0>>

\* [r.strip() for r in reg_match.group(1).split(",")] if reg_match else []
registers_of(line) ==
    IF BraceMatch(line)[1] = 0 THEN <<>>
    ELSE [k \in 1..Len(Split(SubSeq(line, BraceMatch(line)[1] + 1,
                                    FirstPos("}", line, BraceMatch(line)[1] + 1) - 1),
                             ",")) |->
            Strip(Split(SubSeq(line, BraceMatch(line)[1] + 1,
                               FirstPos("}", line, BraceMatch(line)[1] + 1) - 1),
                        ",")[k])]

\* (L[^;]+;)->([^\(]+) matches with its L at position i
TargetAt(line, i) ==
    /\ Ch(line, i) = "L"
    /\ FirstPos(";", line, i + 1) > i + 1
    /\ SubSeq(line, FirstPos(";", line, i + 1) + 1, FirstPos(";", line, i + 1) + 2) = "->"
    /\ FirstPos(";", line, i + 1) + 3 <= Len(line)
    /\ Ch(line, FirstPos(";", line, i + 1) + 3) # "("

\* the position of the L of the leftmost match, 0 when there is none
TargetMatch(line) ==
    IF \E i \in 1..Len(line) : TargetAt(line, i)
    THEN CHOOSE i \in 1..Len(line) :
             TargetAt(line, i) /\ \A j \in 1..(i - 1) : ~TargetAt(line, j)
    ELSE 0

\* match.group(1).lstrip("L").rstrip(";").replace("/", ".")
class_part(line, i) ==
    ReplaceChar(RStripChar(LStripChar(SubSeq(line, i, FirstPos(";", line, i + 1)), "L"),
                           ";"),
                "/", ".")

\* match.group(2): up to the next "(" or the end of the line
method_part(line, from) ==
    IF FirstPos("(", line, from) = 0 THEN SubSeq(line, from, Len(line))
    ELSE SubSeq(line, from, FirstPos("(", line, from) - 1)

\* the api_call of JavaSinkScanner._extract_invoke
api_call_of(line) ==
    IF TargetMatch(line) = 0 THEN ""
    ELSE class_part(line, TargetMatch(line)) \o "."
         \o method_part(line, FirstPos(";", line, TargetMatch(line) + 1) + 3)

\* JavaSinkScanner._extract_invoke
extract_invoke(line) == [api_call |-> api_call_of(line), registers |-> registers_of(line)]

RECURSIVE args_of_line(_, _, _)
\* "for reg in registers" on one line, from the k-th register on
args_of_line(line, registers, k) ==
    IF k > Len(registers) THEN <<>>
    ELSE (IF Contains("const-string " \o registers[k] \o ",", line)
          THEN <<literal_of(line)>> ELSE <<>>)
         \o args_of_line(line, registers, k + 1)

scan_limit == 15

RECURSIVE resolve_from(_, _, _, _)
\* the loop "for i in range(idx - 1, max(-1, idx - scan_limit), -1)" from
\* line q (1-based) down to line `last`
resolve_from(code_lines, q, last, registers) ==
    IF q < last THEN <<>>
    ELSE args_of_line(code_lines[q], registers, 1)
         \o resolve_from(code_lines, q - 1, last, registers)

\* JavaSinkScanner._resolve_arguments; p is the 1-based number of the line,
\* idx + 1, and range() ends before max(-1, idx - scan_limit)
resolve_arguments(code_lines, p, registers) ==
    resolve_from(code_lines, p - 1, Max(0, p - scan_limit) + 1, registers)

scan_range == 5

\* re.search(r'(if-|cmp|throw|return|const/4.*1|const/4.*0)', line)
control_flow_line(line) ==
    \/ Contains("if-", line) \/ Contains("cmp", line)
    \/ Contains("throw", line) \/ Contains("return", line)
    \/ SearchThen("const/4", "1", line) \/ SearchThen("const/4", "0", line)

\* re.search(r'(move-result|move|sput|iput)', line)
assignment_line(line) ==
    \/ Contains("move-result", line) \/ Contains("move", line)
    \/ Contains("sput", line) \/ Contains("iput", line)

\* JavaSinkScanner._is_decision_logic_context for the line numbered p:
\* range(max(0, idx - 5), min(len, idx + 5)) and range(idx, min(len, idx + 3))
is_decision_logic_context(code_lines, p) ==
    \/ \E q \in Max(1, p - scan_range)..Min(Len(code_lines), p + scan_range - 1) :
          control_flow_line(code_lines[q])
    \/ \E q \in p..Min(Len(code_lines), p + 2) : assignment_line(code_lines[q])

\* SinkHit with every field scan_method sets
MethodSinkHit(sink, class_name, method_name, line_number, arguments, conditional,
              snippet) ==
    [sink |-> sink, class_name |-> class_name, method_name |-> method_name,
     line_number |-> line_number, arguments |-> arguments,
     conditional |-> conditional, is_obfuscated |-> Len(method_name) <= 2,
     context_snippet |-> snippet, layer |-> "Java"]

\* branch A of the loop of scan_method, the sink already matched
invoke_hits(sink, class_name, method_name, code_lines, p) ==
    IF sink.name = NoneVal THEN <<>>
    ELSE <<MethodSinkHit(sink, class_name, method_name, p,
                         resolve_arguments(code_lines, p,
                                           registers_of(code_lines[p])),
                         is_decision_logic_context(code_lines, p),
                         SubSeq(code_lines, Max(1, p - 2), Min(Len(code_lines), p + 2)))>>

\* branch B of the loop of scan_method, the indicator already matched
string_hits(sink, class_name, method_name, code_lines, p) ==
    IF sink.name = NoneVal THEN <<>>
    ELSE <<MethodSinkHit(sink, class_name, method_name, p,
                         <<literal_of(code_lines[p])>>,
                         is_decision_logic_context(code_lines, p),
                         <<Strip(code_lines[p])>>)>>

\* the hits of the line numbered p
method_line_hits(flattened_sinks, ok, class_name, method_name, code_lines, p) ==
    IF Contains("invoke-", code_lines[p])
    THEN invoke_hits(SinkRegistry_match_sink(flattened_sinks, api_call_of(code_lines[p])),
                     class_name, method_name, code_lines, p)
    ELSE IF Contains("const-string", code_lines[p])
    THEN string_hits(match_string_indicator(literal_of(code_lines[p]), ok),
                     class_name, method_name, code_lines, p)
    ELSE <<>>

RECURSIVE scan_method_from(_, _, _, _, _, _)
scan_method_from(flattened_sinks, ok, class_name, method_name, code_lines, p) ==
    IF p > Len(code_lines) THEN <<>>
    ELSE method_line_hits(flattened_sinks, ok, class_name, method_name, code_lines, p)
         \o scan_method_from(flattened_sinks, ok, class_name, method_name, code_lines,
                             p + 1)

\* JavaSinkScanner.scan_method
JavaSinkScanner_scan_method(flattened_sinks, ok, class_name, method_name, code_lines) ==
    scan_method_from(flattened_sinks, ok, class_name, method_name, code_lines, 1)

InvokeExists == "invoke-virtual {v0}, Ljava/io/File;->exists()Z"
InvokeExistsTwo == "invoke-virtual {v0, v1}, Ljava/io/File;->exists()Z"
InvokeNoTarget == "invoke-custom {v0}, call_site_0"
LoadSu == "const-string v0, \"/system/bin/su\""
LoadSdcard == "const-string v0, \"/sdcard\""
LoadTmp == "const-string v1, \"/tmp\""
BranchLine == "if-eqz v0, :cond_0"
MoveResultLine == "move-result v0"
NopLine == "nop"

\* the line number of the invocation and the length of the method
InvokeAt == 17
MethodLen == 23

LoadOffsets == {-15, -14, -1}
FlowOffsets == {-6, -5, 2, 3, 4, 5}

LoadPlacements ==
    {[at |-> InvokeAt + d, line |-> l] : d \in LoadOffsets, l \in {LoadSu, LoadSdcard, LoadTmp}}
FlowPlacements ==
    {[at |-> InvokeAt + d, line |-> l] : d \in FlowOffsets, l \in {BranchLine, MoveResultLine}}

MaxLoads == 2

RECURSIVE Placed(_, _)
\* the method with the placements written over its lines, the later ones last
Placed(code_lines, placements) ==
    IF placements = <<>> THEN code_lines
    ELSE Placed([code_lines EXCEPT ![Head(placements).at] = Head(placements).line],
                Tail(placements))

\* methods of MethodLen lines: one invocation, fillers, up to MaxLoads
\* literal loads before it and at most one control-flow line around it
MethodInputs ==
    { Placed([q \in 1..MethodLen |-> IF q = InvokeAt THEN inv ELSE NopLine],
             loads \o flow) :
        inv \in {InvokeExists, InvokeExistsTwo, InvokeNoTarget},
        loads \in SeqsUpTo(LoadPlacements, MaxLoads),
        flow \in SeqsUpTo(FlowPlacements, 1) }

\* the decision-point scenario: four lines, the invocation at line 2
ScenarioMethod ==
    <<LoadSu, "invoke-static {v0}, Ljava/io/File;->exists()Z", MoveResultLine, BranchLine>>

ScannerCatalogs == {<<DefPtrace, DefFileExists>>, <<DefPtrace>>}

InitScanner ==
    /\ pc = "scan_method"
    /\ fin \in [flattened_sinks : ScannerCatalogs,
                class_name : {"com.a.Root"},
                method_name : {"isRooted"},
                code_lines : MethodInputs \cup {ScenarioMethod}]
    /\ fout = <<>>
    /\ AtRest

\* hits = scanner.scan_method(class_name, method_name, code_lines)
ScanMethod ==
    /\ pc = "scan_method"
    /\ fout' = JavaSinkScanner_scan_method(fin.flattened_sinks, ind_ok, fin.class_name,
                                           fin.method_name, fin.code_lines)
    /\ pc' = "scanned"
    /\ UNCHANGED <<fin, everything_else>>

NextScanner == ScanMethod

SpecScanner == InitScanner /\ [][NextScanner]_vars

\* the line of the invocation the method was built around
InvokeLineAt(code_lines) ==
    CHOOSE p \in 1..Len(code_lines) : Contains("invoke-", code_lines[p])

\* the load of a literal into register reg at line q
LoadsInto(code_lines, q, reg) == Contains("const-string " \o reg \o ",", code_lines[q])

\* the nearest load into reg among the 15 lines before line p, 0 if none
NearestLoad(code_lines, p, reg) ==
    IF \E q \in Max(1, p - 15)..(p - 1) : LoadsInto(code_lines, q, reg)
    THEN CHOOSE q \in Max(1, p - 15)..(p - 1) :
             /\ LoadsInto(code_lines, q, reg)
             /\ \A r \in (q + 1)..(p - 1) : ~LoadsInto(code_lines, r, reg)
    ELSE 0

\* the literals the statement expects for the invocation at line p
NearestLiterals(code_lines, p, registers) ==
    { literal_of(code_lines[NearestLoad(code_lines, p, registers[k])]) :
        k \in {j \in 1..Len(registers) : NearestLoad(code_lines, p, registers[j]) # 0} }

HitAt(hits, p) == CHOOSE h \in Range(hits) : h.line_number = p

\* C21: for a matched invocation each involved register contributes at most
\* one resolved argument, the literal of the nearest preceding literal load
\* into that register among the 15 lines before the invocation: an older load
\* into the same register is not reported and a load exactly 15 lines back is
\* still found.
C21_NearestLoadPerRegister ==
    (pc = "scanned" /\ \E h \in Range(fout) : h.line_number = InvokeLineAt(fin.code_lines))
    => /\ Range(HitAt(fout, InvokeLineAt(fin.code_lines)).arguments)
            = NearestLiterals(fin.code_lines, InvokeLineAt(fin.code_lines),
                              registers_of(fin.code_lines[InvokeLineAt(fin.code_lines)]))
       /\ Len(HitAt(fout, InvokeLineAt(fin.code_lines)).arguments)
            <= Len(registers_of(fin.code_lines[InvokeLineAt(fin.code_lines)]))

\* rule (a) of the statement: a control-flow line at distance at most 5
ControlFlowNear(code_lines, p) ==
    \E q \in Max(1, p - 5)..Min(Len(code_lines), p + 5) : control_flow_line(code_lines[q])

\* rule (b) of the statement: an assignment in one of the 3 lines after the hit
AssignmentAfter(code_lines, p) ==
    \E q \in (p + 1)..Min(Len(code_lines), p + 3) : assignment_line(code_lines[q])

\* C27: the bytecode scanner marks a hit as inside decision logic exactly
\* when some line at distance at most 5 before or after the hit line holds a
\* comparison, branch, throw or return opcode or a boolean constant load, or
\* one of the 3 lines after the hit holds a move-result, move, static-field
\* store or instance-field store.
C27_DecisionLogicWindow ==
    pc = "scanned" =>
        \A k \in 1..Len(fout) :
            fout[k].conditional
                <=> (\/ ControlFlowNear(fin.code_lines, fout[k].line_number)
                     \/ AssignmentAfter(fin.code_lines, fout[k].line_number))

\* C30: an invocation line from which no call target can be extracted (the
\* extracted signature is the empty string) matches no sink and produces no
\* SinkHit, whatever the catalog holds.
C30_NoTargetNoHit ==
    pc = "scanned" =>
        \A p \in 1..Len(fin.code_lines) :
            (Contains("invoke-", fin.code_lines[p]) /\ api_call_of(fin.code_lines[p]) = "")
                => \A k \in 1..Len(fout) : fout[k].line_number # p

---------------------------------------------------------------------------
(* JavaCodeSlicer.slice on its own *)

SourcePool ==
    {"", "# check", "    const-string v0, \"/system/bin/su\"",
     "    invoke-static {v0}, Ljava/io/File;->exists()Z", "    move-result v0",
     "    if-eqz v0, :cond_0"}

MaxSource == 4

\* test_code_1 of src/test_decision_point.py, up to its first return
TestCode1 ==
    <<".class public Lcom/example/app/RootChecker;", ".super Ljava/lang/Object;", "",
      ".method public isDeviceRooted()Z", "    .registers 3", "",
      "    const-string v0, \"com.noshufou.android.su\"",
      "    invoke-static {v0}, Ljava/io/File;->exists()Z", "    move-result v0",
      "    if-eqz v0, :cond_0", "", "    const/4 v1, 0x1", "    return v1">>

\* a sink at line 1 and the first decision instruction d lines after it
LongSource(d) ==
    [q \in 1..(d + 1) |->
        IF q = 1 THEN "    const-string v0, \"/system/bin/su\""
        ELSE IF q = d + 1 THEN "    if-eqz v0, :cond_0" ELSE "    move-result v0"]

InitSlicer ==
    /\ pc = "slice"
    /\ fin \in [source_lines : SeqsUpTo(SourcePool, MaxSource) \cup {ScenarioMethod},
                line_number : 1..3]
               \cup {[source_lines |-> TestCode1, line_number |-> n] : n \in {4, 7, 8}}
               \cup {[source_lines |-> LongSource(d), line_number |-> 1] : d \in {29, 30}}
    /\ fout = <<>>
    /\ AtRest

\* snippet, highlights = slicer.slice(source_lines, line_number)
SliceSource ==
    /\ pc = "slice"
    /\ fout' = JavaCodeSlicer_slice(fin.source_lines, fin.line_number)
    /\ pc' = "sliced"
    /\ UNCHANGED <<fin, everything_else>>

NextSlicer == SliceSource

SpecSlicer == InitSlicer /\ [][NextSlicer]_vars

\* an instruction line: not blank, not a comment, not a directive
Instruction(line) ==
    /\ Strip(line) # ""
    /\ ~StartsWith(Strip(line), "#")
    /\ ~StartsWith(Strip(line), ".")

SinkInstruction(line) ==
    Instruction(line) /\ (Contains("const-string", line) \/ Contains("invoke-", line))

DecisionInstruction(line) == Instruction(line) /\ AnyIn(decision_instructions, line)

\* the sink is within reach of the reported line (1-based numbers) and a
\* decision instruction follows it within the scan range
DecisionFollowsSink(src, n) ==
    \E q \in n..Min(Len(src), n + 14) :
        /\ SinkInstruction(src[q])
        /\ \E d \in (q + 1)..Min(Len(src), q + 29) : DecisionInstruction(src[d])

\* the marker of a rendered line "Lnnnn mmmm content"
MarkerOf(rendered) == SubSeq(rendered, 7, 10)

MarkedWith(snippet, marker) == {k \in 1..Len(snippet) : MarkerOf(snippet[k]) = marker}

OneSinkOneDecision(snippet, highlights) ==
    /\ Cardinality(MarkedWith(snippet, "[*] ")) = 1
    /\ Cardinality(MarkedWith(snippet, "[!] ")) = 1
    /\ \A s \in MarkedWith(snippet, "[*] ") :
          \A d \in MarkedWith(snippet, "[!] ") :
              /\ s < d
              /\ Len(highlights) = 2
              /\ Range(highlights) = {s - 1, d - 1}

---------------------------------------------------------------------------
(* EvidenceSlicer.process over the runs of one process: every run_analysis
   builds its own EvidenceSlicer (main.py:96) *)

\* the locals of step 5 of one run at its entry; i is the position of the
\* loop over localized
RunLocals(lps) ==
    [localized |-> lps, i |-> 1, processed_evidence |-> {}, evidence_slices |-> <<>>]

\* an evidence cache kept for the whole process and shared by its runs
shared_evidence(c, k) == UNION {c[j].processed_evidence : j \in DOMAIN c}

\* the processed_evidence a run reads: that of its own slicer (slicer.py:11)
own_evidence(c, k) == c[k].processed_evidence

\* evidence_slices.append(slicer.process(lp, source)) for a call that returned
AppendSlice(loc, r) ==
    [loc EXCEPT !.i = @ + 1,
                !.processed_evidence = @ \cup r.processed,
                !.evidence_slices = Append(@, r.slice)]

\* one iteration of "for lp in localized" of run k (main.py:98-101)
ProcessNext(c, k, map) ==
    AppendSlice(c[k],
                EvidenceSlicer_process(c[k].localized[c[k].i],
                                       SourceOf(map, c[k].localized[c[k].i].location.class),
                                       own_evidence(c, k)))

\* a localized protection as the slicer reads it
SlicerInput(class, method, line) ==
    [pattern_type |-> "Root / Emulator Detection",
     impact_hint |-> "Environment Verification",
     location |-> [class |-> class, method |-> method, line |-> line, layer |-> "Java"],
     evidence |-> "Root path check",
     confidence_score |-> 70]

\* a class whose reported lines 1 and 2 settle on the same sink line
EvidenceSources ==
    [c \in {"com.a.Root"} |->
        <<"", "    const-string v0, \"/system/bin/su\"",
          "    invoke-static {v0}, Ljava/io/File;->exists()Z", "    move-result v0",
          "    if-eqz v0, :cond_0">>]

SlicerInputPool ==
    {SlicerInput("com.a.Root", "isRooted", 1), SlicerInput("com.a.Root", "isRooted", 2),
     SlicerInput("com.a.Root", "check", 2)}

MaxSlices == 2

InitEvidence ==
    /\ pc = "runs"
    /\ calls \in { <<RunLocals(l1), RunLocals(l2)>> :
                     l1, l2 \in SeqsUpTo(SlicerInputPool, MaxSlices) }
    /\ fin = <<>> /\ fout = <<>>
    /\ detected_fws = <<>>
    /\ ind_ok = IndicatorGroups
    /\ catalog_state = "ok"
    /\ ran = [s \in Steps |-> "-"]
    /\ mhit = NoSink /\ mres = MatchNone
    /\ ein = <<>> /\ eout = <<>> /\ gin = <<>> /\ gout = EmptyDict
    /\ decompiled_classes = <<>> /\ extracted_apk_dir = ApkDir("extracted", <<>>)
    /\ source_code_map = EvidenceSources
    /\ java_hits = <<>> /\ native_hits = <<>> /\ packing_hits = <<>>
    /\ candidates = <<>> /\ localized = <<>> /\ evidence_slices = <<>>
    /\ findings = <<>> /\ grouped = EmptyDict

\* run 2 starts when run 1 has returned
RunStep(k) ==
    /\ pc = "runs"
    /\ calls[k].i <= Len(calls[k].localized)
    /\ k = 2 => calls[1].i > Len(calls[1].localized)
    /\ calls' = [calls EXCEPT ![k] = ProcessNext(calls, k, source_code_map)]
    /\ UNCHANGED <<pc, catalog_state, ind_ok, decompiled_classes, extracted_apk_dir,
                   source_code_map, java_hits, native_hits, packing_hits, detected_fws,
                   candidates, localized, evidence_slices, findings, grouped, ran,
                   mhit, mres, ein, eout, gin, gout, fin, fout>>

NextEvidence == \E k \in {1, 2} : RunStep(k)

SpecEvidence == InitEvidence /\ [][NextEvidence]_vars

FilteredPlaceholder == <<"// [FILTERED] Duplicate evidence in same method">>

\* the first 200 characters of what the slicers render for lp
RenderedPrefix(lp, map) ==
    Prefix(Join("", RawSlice(lp, SourceOf(map, lp.location.class)).snippet))

\* an earlier slice of the same run has the class, the method and the first
\* 200 rendered characters of the i-th
EarlierSame(lps, i, map) ==
    \E j \in 1..(i - 1) :
        /\ lps[j].location.class = lps[i].location.class
        /\ lps[j].location.method = lps[i].location.method
        /\ RenderedPrefix(lps[j], map) = RenderedPrefix(lps[i], map)

SuppressedExactly(loc, i, map) ==
    IF EarlierSame(loc.localized, i, map)
    THEN /\ loc.evidence_slices[i].code_snippet = FilteredPlaceholder
         /\ loc.evidence_slices[i].highlighted_lines = <<>>
    ELSE /\ loc.evidence_slices[i].code_snippet
              = RawSlice(loc.localized[i],
                         SourceOf(map, loc.localized[i].location.class)).snippet
         /\ loc.evidence_slices[i].code_snippet # FilteredPlaceholder

\* C23: within one run a slice is replaced by the filtered-duplicate
\* placeholder, with no highlights, exactly when an earlier slice of that run
\* had the same class, the same method and the same first 200 rendered
\* characters; the first such slice keeps its content, and the slices of a
\* previous run never cause suppression.
C23_DuplicatesWithinRun ==
    pc = "runs" =>
        \A k \in {1, 2} :
            \A i \in 1..(calls[k].i - 1) : SuppressedExactly(calls[k], i, source_code_map)

\* the second run kept a slice the first run had already emitted, and
\* filtered its own repetition of it
C23_Witness ==
    /\ pc = "runs"
    /\ calls[1].i = 2 /\ calls[2].i = 3
    /\ calls[1].localized[1] = SlicerInput("com.a.Root", "isRooted", 2)
    /\ calls[2].localized = <<SlicerInput("com.a.Root", "isRooted", 2),
                              SlicerInput("com.a.Root", "isRooted", 1)>>
    /\ calls[2].evidence_slices[1].code_snippet # FilteredPlaceholder
    /\ calls[2].evidence_slices[2].code_snippet = FilteredPlaceholder

----------------------------------------------------------------------------
(* ProtectionPatternEngine.analyze over hits of the native layer *)

\* a NativeSinkHit (core/native/models.py:4-23) found in a library at an
\* offset: class_name, method_name and line_number keep the dataclass defaults
NativeSinkHit(sink, library, offset) ==
    [sink |-> sink, library |-> library, offset |-> offset, evidence |-> sink.name,
     is_syscall |-> FALSE, is_symbol |-> TRUE, is_string_based |-> FALSE,
     class_name |-> "NativeCode", method_name |-> "BinaryInstruction",
     line_number |-> 0, arguments |-> <<>>, conditional |-> FALSE, layer |-> "Native"]

NativeSinkPool ==
    { [name |-> "SSL_set_custom_verify", layer |-> "Native",
       risk |-> "Secure Communication"],
      [name |-> "isDebuggerConnected", layer |-> "Native",
       risk |-> "Anti-Debugging Logic"] }

NativeLibraries == {"libapp.so", "libfoo.so"}

NativeOffsets == {"0x10", "0x2a0"}

NativeHitPool ==
    { NativeSinkHit(s, l, o) : s \in NativeSinkPool, l \in NativeLibraries,
                               o \in NativeOffsets }
    \cup { scan_line(ProbeLine, "ok", IndicatorGroups)[1] }

MaxNativeHits == 2

InitNativeEngine ==
    /\ pc = "analyze"
    /\ ein \in SeqsUpTo(NativeHitPool, MaxNativeHits)
    /\ detected_fws \in {<<>>, <<"Flutter">>}
    /\ ind_ok \in {IndicatorGroups, IndicatorGroups \ {"root"}}
    /\ eout = <<>>
    /\ catalog_state = "ok"
    /\ ran = [s \in Steps |-> "-"]
    /\ mhit = NoSink /\ mres = MatchNone /\ gin = <<>> /\ gout = EmptyDict
    /\ calls = <<>> /\ fin = <<>> /\ fout = <<>>
    /\ NoArguments
    /\ java_hits = <<>> /\ native_hits = <<>> /\ packing_hits = <<>>
    /\ candidates = <<>> /\ localized = <<>> /\ evidence_slices = <<>>
    /\ findings = <<>> /\ grouped = EmptyDict

AnalyzeNative ==
    /\ pc = "analyze"
    /\ eout' = ProtectionPatternEngine_analyze(ein, detected_fws, ind_ok)
    /\ pc' = "analyzed"
    /\ UNCHANGED <<catalog_state, ind_ok, decompiled_classes, extracted_apk_dir,
                   source_code_map, java_hits, native_hits, packing_hits, detected_fws,
                   candidates, localized, evidence_slices, findings, grouped, ran,
                   mhit, mres, ein, gin, gout, calls, fin, fout>>

NextNativeEngine == AnalyzeNative

SpecNativeEngine == InitNativeEngine /\ [][NextNativeEngine]_vars

\* the hit is a native one, and some pattern of the engine matches it
NativeMatching(hit) ==
    /\ hit.layer = "Native"
    /\ TryPatterns(1, hit, detected_fws, ind_ok).kind = "cand"

\* C24: two native hits found at different (library, offset) places that each
\* match a pattern each yield their own candidate in one engine run: the run
\* returns one candidate per such hit, each carrying its hit as the signal
C24_NativeHitsOwnCandidates ==
    pc = "analyzed" =>
        \A i \in 1..Len(ein), j \in 1..Len(ein) :
            ( /\ i # j
              /\ NativeMatching(ein[i]) /\ NativeMatching(ein[j])
              /\ <<ein[i].library, ein[i].offset>> # <<ein[j].library, ein[j].offset>> )
            => /\ \E c \in Range(eout) : c.confidence_signal = ein[i]
               /\ \E c \in Range(eout) : c.confidence_signal = ein[j]

----------------------------------------------------------------------------
(* NativeAnalyzer.analyze_files (core/native/analyzer.py) over the          *)
(* NativeEvidenceScanner (core/native/symbol_scanner.py)                    *)

\* the methods a SinkRegistry object has (core/sinks/registry.py:13-129)
SinkRegistryMethods ==
    {"_load_indicators", "_flatten_catalog", "get_all_sinks", "match_sink",
     "match_string_indicator", "is_security_relevant_call", "match_native_syscall",
     "get_native_symbols"}

\* the sink_registry object handed to NativeAnalyzer: what it answers to, and
\* its flattened catalog
SinkRegistryObject(flattened_sinks) ==
    [methods |-> SinkRegistryMethods, flattened_sinks |-> flattened_sinks]

\* SinkRegistry.get_native_symbols
get_native_symbols(flattened_sinks) ==
    SelectSeq(flattened_sinks, LAMBDA s : s.layer = "Native")

\* NATIVE_STRING_INDICATORS, in the order of the dictionary
NATIVE_STRING_INDICATORS ==
    <<[indicator |-> "/proc/self/maps",
       description |-> "Memory-based Anti-Instrumentation"],
      [indicator |-> "SSL_set_custom_verify",
       description |-> "BoringSSL / Flutter SSL Pinning"],
      [indicator |-> "frida", description |-> "Frida Instrumentation Detection"],
      [indicator |-> "ptrace", description |-> "Anti-Debugging Logic"],
      [indicator |-> "TracerPid", description |-> "Debugger Status Check"],
      [indicator |-> "/system/bin/su", description |-> "Native Root Verification"]>>

HexDigits == "0123456789abcdef"

RECURSIVE hex_digits(_)
hex_digits(n) ==
    IF n = 0 THEN ""
    ELSE hex_digits(n \div 16) \o SubSeq(HexDigits, (n % 16) + 1, (n % 16) + 1)

\* hex(n) for n >= 0
hex(n) == "0x" \o (IF n = 0 THEN "0" ELSE hex_digits(n))

\* binary_data.find(needle): the 0-based offset, -1 when there is none
find_offset(binary_data, needle) == Find(needle, binary_data) - 1

\* a native library on disk; so_path is its base name
SoFile(name, exists, readable, binary_data) ==
    [name |-> name, exists |-> exists, readable |-> readable,
     binary_data |-> binary_data]

\* _create_hit
create_hit(sink, so_file, offset, evidence, is_symbol) ==
    [sink |-> sink, library |-> so_file.name, offset |-> hex(offset),
     evidence |-> evidence,
     is_syscall |-> FALSE, is_symbol |-> is_symbol, is_string_based |-> ~is_symbol,
     class_name |-> "NativeCode", method_name |-> "BinaryInstruction",
     line_number |-> 0, arguments |-> <<so_file.name, evidence>>,
     context_snippet |-> <<"Binary Offset " \o hex(offset) \o ": " \o evidence>>,
     conditional |-> TRUE, layer |-> "Native"]

\* scan, part 1: the loop over native_sinks from index i on
RECURSIVE symbol_hits(_, _, _, _)
symbol_hits(i, native_sinks, so_file, hits) ==
    IF i > Len(native_sinks) THEN hits
    ELSE symbol_hits(i + 1, native_sinks, so_file,
            IF find_offset(so_file.binary_data, native_sinks[i].name) # -1
            THEN Append(hits,
                        create_hit(native_sinks[i], so_file,
                                   find_offset(so_file.binary_data, native_sinks[i].name),
                                   native_sinks[i].name, TRUE))
            ELSE hits)

\* the mock_sink of an indicator; confidence in hundredths
mock_sink(entry) ==
    [name |-> entry.indicator, risk |-> entry.description, layer |-> "Native",
     confidence |-> 60]

\* scan, part 2: the loop over NATIVE_STRING_INDICATORS from index i on
RECURSIVE indicator_hits(_, _, _)
indicator_hits(i, so_file, hits) ==
    IF i > Len(NATIVE_STRING_INDICATORS) THEN hits
    ELSE indicator_hits(i + 1, so_file,
            IF /\ find_offset(so_file.binary_data,
                              NATIVE_STRING_INDICATORS[i].indicator) # -1
               /\ ~\E h \in 1..Len(hits) :
                     hits[h].offset
                     = hex(find_offset(so_file.binary_data,
                                       NATIVE_STRING_INDICATORS[i].indicator))
            THEN Append(hits,
                        create_hit(mock_sink(NATIVE_STRING_INDICATORS[i]), so_file,
                                   find_offset(so_file.binary_data,
                                               NATIVE_STRING_INDICATORS[i].indicator),
                                   NATIVE_STRING_INDICATORS[i].indicator, FALSE))
            ELSE hits)

\* NativeEvidenceScanner.scan: a missing file gives no hit, an unreadable one
\* raises in open(); self.sink_registry.get_sinks_by_layer raises
\* AttributeError on an object that has no such method
NativeEvidenceScanner_scan(so_file, sink_registry) ==
    IF ~so_file.exists THEN [raised |-> FALSE, hits |-> <<>>]
    ELSE IF ~so_file.readable THEN [raised |-> TRUE, hits |-> <<>>]
    ELSE IF "get_sinks_by_layer" \notin sink_registry.methods
    THEN [raised |-> TRUE, hits |-> <<>>]
    ELSE [raised |-> FALSE,
          hits |-> indicator_hits(1, so_file,
                       symbol_hits(1, get_native_symbols(sink_registry.flattened_sinks),
                                   so_file, <<>>))]

\* analyze_files: the loop over so_files from index i on; a scan that raises
\* is skipped
RECURSIVE analyze_files_from(_, _, _, _)
analyze_files_from(i, so_files, sink_registry, native) ==
    IF i > Len(so_files) THEN native
    ELSE analyze_files_from(i + 1, so_files, sink_registry,
            IF NativeEvidenceScanner_scan(so_files[i], sink_registry).raised
            THEN native
            ELSE native \o NativeEvidenceScanner_scan(so_files[i], sink_registry).hits)

\* NativeAnalyzer(sink_registry).analyze_files(so_files)
analyze_files(so_files, sink_registry) ==
    analyze_files_from(1, so_files, sink_registry, <<>>)

NativeCatalogs ==
    { <<[name |-> "ptrace", layer |-> "Native", risk |-> "Anti-Debugging Logic"],
        [name |-> "java.io.File.exists", layer |-> "Java", risk |-> "Root Detection"]>>,
      <<[name |-> "java.io.File.exists", layer |-> "Java", risk |-> "Root Detection"]>> }

BinaryContents ==
    {"ELF", "ELFxptracex", "ELF/proc/self/mapsxfrida", "ptrace/system/bin/suELFELFELFTracerPid"}

SoFilePool ==
    { SoFile("libfoo.so", TRUE, TRUE, d) : d \in BinaryContents }
    \cup { SoFile("libapp.so", TRUE, TRUE, "ELFxptracex"),
           SoFile("libfoo.so", TRUE, FALSE, "ELFxptracex"),
           SoFile("libgone.so", FALSE, FALSE, "") }

MaxSoFiles == 2

InitNativeScan ==
    /\ AtRest
    /\ pc = "analyze_files"
    /\ fin \in [so_files : SeqsUpTo(SoFilePool, MaxSoFiles),
                sink_registry : {SinkRegistryObject(c) : c \in NativeCatalogs}]
    /\ fout = <<>>

AnalyzeFiles ==
    /\ pc = "analyze_files"
    /\ fout' = analyze_files(fin.so_files, fin.sink_registry)
    /\ pc' = "analyzed_files"
    /\ UNCHANGED fin
    /\ UNCHANGED everything_else

NextNativeScan == AnalyzeFiles

SpecNativeScan == InitNativeScan /\ [][NextNativeScan]_vars

\* the hit a needle found in a library is reported as
HitFor(h, so_file, needle) ==
    /\ h.library = so_file.name
    /\ h.offset = hex(find_offset(so_file.binary_data, needle))
    /\ h.evidence = needle
    /\ h.conditional

\* C25: for every readable native library, analyze_files returns one hit for
\* each native-layer catalog sink whose symbol name occurs in the file and one
\* for each native string indicator that occurs in it (unless a hit at the
\* same offset was emitted), each with the library name, the hex offset, the
\* matched evidence and conditional = true
C25_HitPerSymbolAndIndicator ==
    pc = "analyzed_files" =>
        \A f \in 1..Len(fin.so_files) :
            (fin.so_files[f].exists /\ fin.so_files[f].readable) =>
                /\ \A s \in Range(get_native_symbols(fin.sink_registry.flattened_sinks)) :
                      Contains(s.name, fin.so_files[f].binary_data)
                      => \E h \in Range(fout) :
                             HitFor(h, fin.so_files[f], s.name) /\ h.is_symbol
                /\ \A n \in Range(NATIVE_STRING_INDICATORS) :
                      Contains(n.indicator, fin.so_files[f].binary_data)
                      => \E h \in Range(fout) :
                             /\ h.library = fin.so_files[f].name
                             /\ h.offset = hex(find_offset(fin.so_files[f].binary_data,
                                                           n.indicator))

----------------------------------------------------------------------------
(* The score step 4 records against the signal-level formula *)

\* the signal dictionary of a hit for the signal-level formula: a sink match,
\* the string-match flag, the decision-logic flag and the layer of the hit
SignalOfHit(hit) ==
    Signal(TRUE, TRUE, GetVal(hit, "has_string_match") = TRUE,
           GetVal(hit, "conditional") = TRUE, GetVal(hit, "layer"), 0)

\* a certificate-pinning sink whose catalog entry carries the string-match flag
SinkPinnerFlagged ==
    [name |-> "javax.net.ssl.X509TrustManager.checkServerTrusted", layer |-> "Java",
     risk |-> "Secure Communication", has_string_match |-> TRUE]

\* hits of step 2 that the matchers turn into candidates with and without an
\* explicit confidence level
ScoredHitPool ==
    { SinkHit(sink, "com.a.Net", "pin()V", line, <<>>, conditional) :
        sink \in {SinkPinner, SinkPinnerFlagged}, line \in {1, 2},
        conditional \in BOOLEAN }
    \cup { SinkHit(SinkFileExists, "com.a.Root", "isRooted()Z", 3,
                   <<"/system/bin/su">>, TRUE) }

MaxScoredHits == 2

\* run_analysis after step 2 has returned its hits
InitLocalize ==
    /\ pc = "classify"
    /\ catalog_state = "ok"
    /\ ind_ok = IndicatorGroups
    /\ ran = [s \in Steps |->
                 IF s \in {"load", "scan_java", "scan_native"} THEN "ok" ELSE "-"]
    /\ NoArguments /\ NoHarness
    /\ java_hits \in SeqsUpTo(ScoredHitPool, MaxScoredHits)
    /\ native_hits = <<>> /\ packing_hits = <<>>
    /\ detected_fws \in {<<>>, <<"Flutter">>}
    /\ candidates = <<>> /\ localized = <<>>
    /\ evidence_slices = <<>> /\ findings = <<>> /\ grouped = EmptyDict

NextLocalize == Classify \/ Localize

SpecLocalize == InitLocalize /\ [][NextLocalize]_vars

\* C26: for a candidate without explicit confidence, the score recorded by
\* the localization pipeline equals the signal-level formula: 0.40 for the
\* sink match, plus 0.20 for a string match, plus 0.15 inside decision logic,
\* plus 0.10 for the native layer, plus the 0.10 redundancy bonus when at
\* least three of these hold, capped at 1.0
C26_ScoreIsSignalFormula ==
    ran["localize"] = "ok" =>
        \A c \in Range(candidates) :
            c.confidence_level = NoLevel =>
                \A lp \in Range(localized) :
                    LocalizedFrom(lp, c) =>
                        lp.confidence_score
                        = ConfidenceScorer_score_signal(
                              SignalOfHit(c.confidence_signal)).confidence

----------------------------------------------------------------------------
(* Steps 3 to 6 of run_analysis over hits whose sinks and evidence text     *)
(* select different taxonomy strategies                                     *)

\* the catalog sink of the ptrace symbol
SinkPtrace ==
    [name |-> "ptrace", layer |-> "Native", risk |-> "Anti-Debugging Logic",
     has_string_match |-> FALSE]

\* hits of step 2: ptrace called with a frida literal in two classes, a file
\* check, a pinner call and a debugger check
TaxonomyHitPool ==
    { SinkHit(SinkPtrace, "com.a.Root", "guard()V", 2, <<"frida">>, TRUE),
      SinkHit(SinkPtrace, "com.a.Net", "guard()V", 1, <<"frida">>, FALSE),
      SinkHit(SinkFileExists, "com.a.Root", "isRooted()Z", 2, <<"/system/bin/su">>, TRUE),
      SinkHit(SinkPinner, "com.a.Net", "pin()V", 1, <<>>, FALSE),
      SinkHit(SinkDebugger, "com.a.Dbg", "check()V", 1, <<>>, TRUE) }

MaxTaxonomyHits == 2

\* run_analysis after step 2 has returned its hits
InitTaxonomy ==
    /\ pc = "classify"
    /\ catalog_state = "ok"
    /\ ind_ok = IndicatorGroups
    /\ ran = [s \in Steps |->
                 IF s \in {"load", "scan_java", "scan_native"} THEN "ok" ELSE "-"]
    /\ NoArguments /\ NoHarness
    /\ java_hits \in SeqsUpTo(TaxonomyHitPool, MaxTaxonomyHits)
    /\ native_hits = <<>> /\ packing_hits = <<>>
    /\ detected_fws = <<>>
    /\ candidates = <<>> /\ localized = <<>>
    /\ evidence_slices = <<>> /\ findings = <<>> /\ grouped = EmptyDict

NextTaxonomy == Classify \/ Localize \/ Slice \/ Report

SpecTaxonomy == InitTaxonomy /\ [][NextTaxonomy]_vars

\* the strategy of the first applicable rule, for the name of the underlying
\* sink and the rendered evidence
first_applicable_strategy(sink_name, code) ==
    IF sink_name = "ptrace" THEN "Syscall / API-based"
    ELSE IF Contains("/proc/self/maps", code) THEN "Memory-based"
    ELSE IF Contains("/system", code) THEN "File / Path-based"
    ELSE IF Contains("CertificatePinner", code) \/ Contains("SSLContext", code)
    THEN "API-based"
    ELSE IF Contains("checksum", code) THEN "Checksum-based"
    ELSE "Control-flow-based"

\* the finding reports the candidate: same pattern type, class and line
FindingOf(f, c) ==
    /\ f.protection_type = c.pattern_type
    /\ f.location.class = c.location.class
    /\ f.location.line = c.location.line

\* C28: for every finding produced by the pipeline, the taxonomy strategy is
\* that of the first applicable rule: the underlying sink is ptrace ->
\* Syscall / API-based; else by the rendered evidence: a memory-introspection
\* path, a filesystem path, a certificate/TLS API name, checksum text, else
\* Control-flow-based. A finding whose sink is ptrace is Syscall / API-based
\* whatever its evidence text.
C28_StrategyFirstRule ==
    ran["report"] = "ok" =>
        \A c \in Range(candidates), f \in Range(findings) :
            FindingOf(f, c) =>
                f.taxonomy.strategy
                = first_applicable_strategy(c.confidence_signal.sink.name,
                                            Join(" ", f.evidence_snippet))

----------------------------------------------------------------------------
(* deduplicate_and_group (run.py) *)

hash_chars == 200

\* hash(evidence_str[:200]); the hash is taken as injective on the prefixes
\* compared
evidence_hash(evidence_str) ==
    SubSeq(evidence_str, 1, Min(hash_chars, Len(evidence_str)))

\* "".join(evidence_snippet)
evidence_str_of(f) == Join("", f.evidence_snippet)

\* f"{p_type}|{loc.get('class')}|{loc.get('method')}"
primary_fp(f) ==
    f.protection_type \o "|" \o StrOf(f.location.class) \o "|" \o StrOf(f.location.method)

\* f"{primary_fp}|{evidence_hash}", as the pair of its two parts
secondary_fp(f) == <<primary_fp(f), evidence_hash(evidence_str_of(f))>>

\* the locals of the loop: unique_findings as its items in insertion order,
\* evidence_cache as the set of its keys
DedupLocals(unique_findings, evidence_cache) ==
    [unique_findings |-> unique_findings, evidence_cache |-> evidence_cache]

\* the position of the key in unique_findings, 0 when it is absent
position_of(unique_findings, fp) ==
    IF \E k \in 1..Len(unique_findings) : unique_findings[k].key = fp
    THEN CHOOSE k \in 1..Len(unique_findings) : unique_findings[k].key = fp
    ELSE 0

\* unique_findings[primary_fp] = f; evidence_cache[secondary_fp] = True
keep_finding(st, f) ==
    DedupLocals(
        IF position_of(st.unique_findings, primary_fp(f)) = 0
        THEN Append(st.unique_findings, [key |-> primary_fp(f), value |-> f])
        ELSE [st.unique_findings EXCEPT
                 ![position_of(st.unique_findings, primary_fp(f))].value = f],
        st.evidence_cache \cup {secondary_fp(f)})

\* the branch of a known primary fingerprint (run.py:86-106)
resolve_by_confidence(st, f, existing) ==
    IF f.confidence_score > existing.confidence_score THEN keep_finding(st, f)
    ELSE IF f.confidence_score = existing.confidence_score
    THEN IF Len(evidence_str_of(f)) > Len(evidence_str_of(existing))
         THEN keep_finding(st, f)
         ELSE st
    ELSE DedupLocals(st.unique_findings, st.evidence_cache \cup {secondary_fp(f)})

\* one iteration of "for f in findings"
dedup_step(st, f) ==
    IF secondary_fp(f) \in st.evidence_cache THEN st
    ELSE IF position_of(st.unique_findings, primary_fp(f)) = 0
    THEN keep_finding(st, f)
    ELSE resolve_by_confidence(
             st, f,
             st.unique_findings[position_of(st.unique_findings, primary_fp(f))].value)

RECURSIVE dedup_from(_, _, _)
dedup_from(i, fs, st) ==
    IF i > Len(fs) THEN st ELSE dedup_from(i + 1, fs, dedup_step(st, fs[i]))

\* list(unique_findings.values())
values_of(unique_findings) ==
    [k \in 1..Len(unique_findings) |-> unique_findings[k].value]

deduplicate_and_group(fs) ==
    values_of(dedup_from(1, fs, DedupLocals(<<>>, {})).unique_findings)

\* a FinalFinding as far as deduplicate_and_group reads it
DedupFinding(protection_type, class, method, evidence_snippet, confidence_score) ==
    [protection_type |-> protection_type,
     location |-> [class |-> class, method |-> method],
     evidence_snippet |-> evidence_snippet,
     confidence_score |-> confidence_score]

DedupPlaces ==
    { <<"Root Detection", "com.a.Root", "isRooted()">>,
      <<"SSL Pinning", "com.a.Net", "pin()">> }

DedupSnippets ==
    { <<"    if-eqz v1, :cond_0">>,
      <<"    invoke-virtual {v0}, Ljava/io/File;->exists()Z", "    if-eqz v1, :cond_0">> }

DedupFindingPool ==
    { DedupFinding(p[1], p[2], p[3], s, c) :
        p \in DedupPlaces, s \in DedupSnippets, c \in {40, 90} }

MaxDedup == 3

InitDedup ==
    /\ AtRest
    /\ pc = "deduplicate"
    /\ fin \in SeqsUpTo(DedupFindingPool, MaxDedup)
    /\ fout = <<>>

Deduplicate ==
    /\ pc = "deduplicate"
    /\ fout' = deduplicate_and_group(fin)
    /\ pc' = "deduplicated"
    /\ UNCHANGED fin
    /\ UNCHANGED everything_else

NextDedup == Deduplicate

SpecDedup == InitDedup /\ [][NextDedup]_vars

\* C29: for any list of findings in any order, deduplicate_and_group returns
\* exactly one finding per (protection type, class, method) fingerprint, and
\* the finding kept has the highest confidence_score among all input findings
\* with that fingerprint
C29_OnePerFingerprintHighest ==
    pc = "deduplicated" =>
        /\ \A f \in Range(fin) :
              Cardinality({k \in 1..Len(fout) : primary_fp(fout[k]) = primary_fp(f)}) = 1
        /\ \A k \in 1..Len(fout) :
              /\ fout[k] \in Range(fin)
              /\ \A f \in Range(fin) :
                    primary_fp(f) = primary_fp(fout[k])
                    => fout[k].confidence_score >= f.confidence_score
=============================================================================
